---------------------------- MODULE Spec2Model ----------------------------
(***************************************************************************)
(* logstack: per-tenant write-ahead log (core/wal.py), the Loki forwarder  *)
(* (core/forwarder.py, core/forwarder_service.py) and the ingest pipeline  *)
(* (api/logs.py, core/pipeline.py, core/auth.py).                          *)
(*                                                                         *)
(* A tenant directory is a function from file names to files; a file is    *)
(* its inode number, its bytes and its times.  Segment bytes are real      *)
(* frames: <u32 little-endian length><payload><u32 little-endian CRC32>.   *)
(***************************************************************************)
EXTENDS Integers, Sequences, FiniteSets, TLC

(***************************************************************************)
(* Bounds of the model.                                                    *)
(***************************************************************************)
\* append calls started in one behaviour
MaxAppends == 2
\* entries of one append call: 1..MaxBatch
MaxBatch == 2
\* clock advances in one behaviour
MaxTicks == 2
\* injected I/O failures in one behaviour
MaxFaults == 1
\* forwarder cycles started in one behaviour
MaxCycles == 1
\* the same, in the behaviours where append calls overlap
MaxAppendsOverlap == 2
MaxTicksOverlap == 1
\* requests to the ingest endpoint in one behaviour
MaxRequests == 3
\* ForwarderService.start, stop and force_forward calls
MaxStarts == 3
MaxStops == 1
MaxForced == 1
\* calls on the token buckets, and the largest k of consume(k)
MaxCalls == 4
MaxConsume == 3
\* ingest requests made while the forwarder loop runs
MaxPipelineRequests == 1
\* clock readings per second and the last reading, where the token bucket
\* is called more often than once a second
ClockHz == 2
MaxClock == 6

Tenants == {"t1", "t2"}
\* coroutines that may be inside WALManager.append at the same time
Procs == {"a1", "a2"}
\* the clock advances by an hour (seconds), which is enough for a rule of
\* _should_rotate_segment to fire
TickSteps == {3600}
Platforms == {"posix", "windows"}

(***************************************************************************)
(* WALSettings (config.py).  The times are the defaults; the two sizes are *)
(* configuration values scaled to the frames of the model (a frame of a    *)
(* one-digit entry is 24 bytes): a segment is full with two frames and     *)
(* large enough for rule R2 with one.                                      *)
(***************************************************************************)
segment_max_bytes == 48
min_rotation_bytes == 24
rotation_time_active_minutes == 5
rotation_time_idle_hours == 1
idle_threshold_minutes == 10
force_rotation_hours == 6
\* the quota, scaled: three frames, one and a half segments
token_wal_quota_bytes == 72

\* LokiSettings (config.py), scaled: one retry
max_retries == 1
backoff_seconds == <<5, 10, 20>>
backoff_park_seconds == 60

\* SecuritySettings (config.py), scaled: one request per second, burst of two
rate_limit_rps == 1
rate_limit_burst == 2

(***************************************************************************)
(* Bytes.  TLC integers are 32-bit signed, so a u32 is held as two 16-bit  *)
(* halves [hi, lo] wherever its top bit may be set.                        *)
(***************************************************************************)
RECURSIVE Xor(_, _)
Xor(a, b) ==
    IF a = 0 THEN b
    ELSE IF b = 0 THEN a
    ELSE ((a + b) % 2) + 2 * Xor(a \div 2, b \div 2)

\* one step of the reflected CRC-32 (polynomial 0xEDB88320) on [hi, lo]
CrcShift(c) ==
    LET lo1 == (c.lo \div 2) + (c.hi % 2) * 32768
        hi1 == c.hi \div 2
    IN  IF c.lo % 2 = 1
        THEN [hi |-> Xor(hi1, 60856), lo |-> Xor(lo1, 33568)]
        ELSE [hi |-> hi1, lo |-> lo1]

RECURSIVE CrcBits(_, _)
CrcBits(c, n) ==
    IF n = 0 THEN c
    ELSE LET d == CrcShift(c) IN IF d.lo >= 0 THEN CrcBits(d, n - 1) ELSE d

\* the byte table of CRC-32, as zlib uses it
CrcTable == [b \in 0..255 |-> CrcBits([hi |-> 0, lo |-> b], 8)]

\* crc = table[(crc ^ byte) & 0xFF] ^ (crc >> 8)
CrcByte(c, b) ==
    LET t == CrcTable[Xor(c.lo % 256, b)]
    IN  [hi |-> Xor(t.hi, c.hi \div 256),
         lo |-> Xor(t.lo, (c.lo \div 256) + (c.hi % 256) * 256)]

RECURSIVE CrcBytes(_, _, _)
CrcBytes(c, bytes, i) ==
    IF i > Len(bytes) THEN c
    ELSE LET d == CrcByte(c, bytes[i])
         IN  IF d.lo >= 0 THEN CrcBytes(d, bytes, i + 1) ELSE d

\* zlib.crc32(bytes) as [hi, lo]
crc32(bytes) ==
    LET c == CrcBytes([hi |-> 65535, lo |-> 65535], bytes, 1)
    IN  [hi |-> 65535 - c.hi, lo |-> 65535 - c.lo]

\* struct.pack('<I', n) for a u32 given as [hi, lo]
PackHL(c) == <<c.lo % 256, c.lo \div 256, c.hi % 256, c.hi \div 256>>
\* struct.pack('<I', n) for a length
pack_I(n) == PackHL([hi |-> n \div 65536, lo |-> n % 65536])
\* struct.unpack('<I', b)[0] as [hi, lo]
unpack_I(b) == [hi |-> b[3] + 256 * b[4], lo |-> b[1] + 256 * b[2]]

(***************************************************************************)
(* Entries.  An entry is the dict {"timestamp": k}; json.dumps gives       *)
(* '{"timestamp": k}' and .encode('utf-8') its bytes.                      *)
(***************************************************************************)
RECURSIVE Digits(_)
Digits(k) == IF k < 10 THEN <<48 + k>> ELSE Digits(k \div 10) \o <<48 + (k % 10)>>

JsonHead == <<123, 34, 116, 105, 109, 101, 115, 116, 97, 109, 112, 34, 58, 32>>
JsonTail == <<125>>

json_dumps(k) == JsonHead \o Digits(k) \o JsonTail

IsDigit(b) == b >= 48 /\ b <= 57

RECURSIVE ParseInt(_, _, _)
ParseInt(s, i, acc) ==
    IF i > Len(s) THEN acc ELSE ParseInt(s, i + 1, 10 * acc + (s[i] - 48))

\* json.loads(bytes.decode('utf-8')): the entry, or 0 for JSONDecodeError
json_loads(p) ==
    LET n == Len(p)
        h == Len(JsonHead)
        mid == IF n > h + 1 THEN SubSeq(p, h + 1, n - 1) ELSE <<>>
    IN  IF /\ n > h + 1
           /\ n <= h + 4
           /\ SubSeq(p, 1, h) = JsonHead
           /\ p[n] = 125
           /\ \A i \in 1..Len(mid) : IsDigit(mid[i])
           /\ (Len(mid) = 1 \/ mid[1] # 48)
        THEN ParseInt(mid, 1, 0)
        ELSE 0

\* the frame _write_entry_to_segment writes, as its three writes
FrameParts(k) ==
    LET p == json_dumps(k)
    IN  <<pack_I(Len(p)), p, PackHL(crc32(p))>>

Frame(k) == FrameParts(k)[1] \o FrameParts(k)[2] \o FrameParts(k)[3]

\* the entries of the model: call c (0-based) appends c * MaxBatch + 1 ..
EntryIds == 1..((MaxAppends + MaxAppendsOverlap) * MaxBatch)
\* a frame damaged on disk: one bit flipped in the digit of the payload
\* (part 4 instead of 2: '1' becomes '9', '2' becomes ':') or in the first
\* byte of the checksum (part 5 instead of 3)
Flip(bytes, i, bit) == [bytes EXCEPT ![i] = Xor(@, bit)]
DamagedParts(f) == <<Flip(f[2], Len(f[2]) - 1, 8), Flip(f[3], 1, 1)>>
WithDamage(f) == f \o DamagedParts(f)

\* the parts of every entry, computed once
FrameTable == [k \in EntryIds |-> WithDamage(FrameParts(k))]

\* zlib.crc32 again: the value is looked up when the bytes are the payload
\* of an entry of the model and computed otherwise
crc32_of(bytes) ==
    IF \E k \in EntryIds : FrameTable[k][2] = bytes
    THEN unpack_I(FrameTable[CHOOSE k \in EntryIds : FrameTable[k][2] = bytes][3])
    ELSE crc32(bytes)

\* The bytes of a file are the concatenation of the writes made to it; a
\* file keeps the list of these writes, <<entry, part>> each, part 1 the
\* length prefix, 2 the payload, 3 the checksum (4 and 5: damaged on disk).
RECURSIVE Bytes(_)
Bytes(writes) ==
    IF writes = <<>> THEN <<>>
    ELSE FrameTable[Head(writes)[1]][Head(writes)[2]] \o Bytes(Tail(writes))

RECURSIVE Size(_)
Size(writes) ==
    IF writes = <<>> THEN 0
    ELSE Len(FrameTable[Head(writes)[1]][Head(writes)[2]]) + Size(Tail(writes))

(***************************************************************************)
(* LokiForwarder._read_segment_entries on the bytes of a file: the list of *)
(* entries, or a raise (struct.error on a length prefix of 1..3 bytes).    *)
(***************************************************************************)
\* a reader that ends the scan at the first record whose checksum does not
\* match ('break' in the place of 'continue')
RECURSIVE ReadFromAborts(_, _, _)
ReadFromAborts(data, pos, acc) ==
    LET left == Len(data) - pos + 1
    IN  IF left <= 0 THEN [raised |-> FALSE, entries |-> acc]
        ELSE IF left < 4 THEN [raised |-> TRUE, entries |-> acc]
        ELSE
          LET lb == SubSeq(data, pos, pos + 3)
              big == lb[3] # 0 \/ lb[4] # 0
              length == lb[1] + 256 * lb[2]
          IN  IF big \/ left - 4 < length
              THEN [raised |-> FALSE, entries |-> acc]
              ELSE IF left - 4 - length < 4
              THEN [raised |-> FALSE, entries |-> acc]
              ELSE
                LET payload == SubSeq(data, pos + 4, pos + 3 + length)
                    cb == SubSeq(data, pos + 4 + length, pos + 7 + length)
                    nxt == pos + 8 + length
                IN  IF unpack_I(cb) # crc32_of(payload)
                    THEN [raised |-> FALSE, entries |-> acc]
                    ELSE LET entry == json_loads(payload)
                         IN  IF entry = 0 THEN ReadFromAborts(data, nxt, acc)
                             ELSE ReadFromAborts(data, nxt, Append(acc, entry))

RECURSIVE ReadFrom(_, _, _)
ReadFrom(data, pos, acc) ==
    LET left == Len(data) - pos + 1
    IN  IF left <= 0 THEN [raised |-> FALSE, entries |-> acc]
        ELSE IF left < 4 THEN [raised |-> TRUE, entries |-> acc]
        ELSE
          LET lb == SubSeq(data, pos, pos + 3)
              big == lb[3] # 0 \/ lb[4] # 0
              length == lb[1] + 256 * lb[2]
          IN  IF big \/ left - 4 < length
              THEN [raised |-> FALSE, entries |-> acc]
              ELSE IF left - 4 - length < 4
              THEN [raised |-> FALSE, entries |-> acc]
              ELSE
                LET payload == SubSeq(data, pos + 4, pos + 3 + length)
                    cb == SubSeq(data, pos + 4 + length, pos + 7 + length)
                    nxt == pos + 8 + length
                IN  IF unpack_I(cb) # crc32_of(payload)
                    THEN ReadFrom(data, nxt, acc)
                    ELSE LET entry == json_loads(payload)
                         IN  IF entry = 0 THEN ReadFrom(data, nxt, acc)
                             ELSE ReadFrom(data, nxt, Append(acc, entry))

_read_segment_entries(data) == ReadFrom(data, 1, <<>>)

(***************************************************************************)
(* State.                                                                  *)
(***************************************************************************)
VARIABLES
    platform,   \* the operating system the process runs on
    now,        \* time.time(), seconds
    ticks,      \* clock advances so far
    faults,     \* injected I/O failures so far
    calls,      \* WALManager.append calls started so far
    nextId,     \* next inode number
    dir,        \* dir[t]: the tenant directory, file name -> file
    app,        \* app[p]: the append call coroutine p is in
    overlap,    \* whether the callers let append calls overlap
    fwd,        \* the cycle of LokiForwarder.forward_ready_segments
    cycles,     \* forwarder cycles started so far
    acked,      \* history: <<tenant, entry>> of every append that returned
    delivered,  \* history: the entries of the POSTs answered 204
    removed,    \* history: what the forwarder deleted, and what it had sent
    buckets,    \* RateLimiter.buckets: token -> TokenBucket
    responses,  \* history: the answers of the ingest endpoint
    probe,      \* the last result of _should_rotate_segment evaluated alone
    posts,      \* history: the POSTs, sleeps and deletions since the loop's
                \* cycle began
    record,     \* whether the history posts is kept
    force,      \* the cycle ForwarderService.force_forward runs
    service,    \* ForwarderService and the LokiForwarder it starts
    masking,    \* the masking configuration and, as history, the last call
                \* of the masking engine: its input, its heap before and after
    taken       \* history: the last TokenBucket.consume call and the calls
                \* made on each bucket

vars == <<platform, now, ticks, faults, calls, nextId, dir, app, overlap,
          fwd, cycles, acked, delivered, removed, buckets, responses, probe,
          posts, record, force, service, taken, masking>>
histVars == <<posts, record, taken, masking>>
svcVars == <<force, service>>

\* A forwarder cycle is on the event loop, between two of its suspension
\* points: nothing else runs until it reaches its next await.
ForwarderRuns == fwd.pc = "next" \/ force.pc = "next"
apiVars == <<buckets, responses>>
walVars == <<faults, calls, nextId, dir, app, acked>>
fwdVars == <<fwd, cycles, delivered, removed>>

\* segment_NNN.wal / segment_NNN.ready
Name(n, suf) == [num |-> n, suf |-> suf]
NoName == Name(0, "none")
with_suffix(nm, suf) == Name(nm.num, suf)

EmptyDir == [nm \in {} |-> 0]
Put(d, nm, f) == [x \in (DOMAIN d) \cup {nm} |-> IF x = nm THEN f ELSE d[x]]
Del(d, nm) == [x \in (DOMAIN d) \ {nm} |-> d[x]]

\* a newly created, empty file; ok is history: the entries of the append
\* calls that returned and wrote to this file, in the order of their return
NewFile(id, t) == [id |-> id, data |-> <<>>, birth |-> t, mtime |-> t, ok |-> <<>>]

\* token_dir.glob('segment_*.wal'), token_dir.glob('segment_*.ready')
GlobWal(d) == {nm \in DOMAIN d : nm.suf = "wal"}
GlobReady(d) == {nm \in DOMAIN d : nm.suf = "ready"}

\* the last element of the list sorted by number
Highest(S) == CHOOSE nm \in S : \A o \in S : o.num <= nm.num

st_size(f) == Size(f.data)
\* st_ctime is the time of creation on Windows and the time of the last
\* inode change on POSIX; every write to a .wal file changes its inode, so
\* there it equals st_mtime
st_ctime(f) == IF platform = "windows" THEN f.birth ELSE f.mtime
st_mtime(f) == f.mtime

(***************************************************************************)
(* WALManager                                                              *)
(***************************************************************************)
_get_current_segment_path(d) ==
    LET segment_files == GlobWal(d)
    IN  IF segment_files = {} THEN Name(1, "wal")
        ELSE LET current_segment == Highest(segment_files)
             IN  IF st_size(d[current_segment]) >= segment_max_bytes
                 THEN Name(Cardinality(segment_files) + 1, "wal")
                 ELSE current_segment

\* the rules of _should_rotate_segment on the three values it reads
RotationRules(current_size, age_seconds, seconds_since_last_write) ==
    LET is_active == seconds_since_last_write < idle_threshold_minutes * 60
    IN  IF current_size >= segment_max_bytes THEN TRUE
        ELSE IF /\ is_active
                /\ age_seconds >= rotation_time_active_minutes * 60
                /\ current_size >= min_rotation_bytes THEN TRUE
        ELSE IF ~is_active /\ age_seconds >= rotation_time_idle_hours * 3600 THEN TRUE
        ELSE IF age_seconds >= force_rotation_hours * 3600 THEN TRUE
        ELSE FALSE

\* _should_rotate_segment on an existing file at time t
_should_rotate_segment(f, t) ==
    RotationRules(st_size(f), t - st_ctime(f), t - st_mtime(f))

\* inode numbers coroutines hold open
OpenIds == {app[p].fid : p \in {q \in Procs : app[q].fid # 0}}

\* Path.rename(target): [err, dir]
Rename(d, src, dst) ==
    IF src \notin DOMAIN d THEN [err |-> "FileNotFoundError", dir |-> d]
    ELSE IF platform = "windows" /\ dst \in DOMAIN d
    THEN [err |-> "FileExistsError", dir |-> d]
    ELSE IF platform = "windows" /\ d[src].id \in OpenIds
    THEN [err |-> "PermissionError", dir |-> d]
    ELSE [err |-> "", dir |-> Put(Del(d, src), dst, d[src])]

\* Path.touch(): creates the file, or sets the times of an existing one
Touch(d, nm, t, id) ==
    IF nm \in DOMAIN d THEN Put(d, nm, [d[nm] EXCEPT !.mtime = t])
    ELSE Put(d, nm, NewFile(id, t))

\* _rotate_segment; io_fails: the creation of the new segment fails
_rotate_segment(d, t, id, io_fails) ==
    LET current_segment == _get_current_segment_path(d)
        next_number == Cardinality(GlobWal(d)) + 1
        r == Rename(d, current_segment, with_suffix(current_segment, "ready"))
        new_segment == Name(next_number, "wal")
    IN  IF r.err # "" THEN r
        ELSE IF io_fails THEN [err |-> "OSError", dir |-> r.dir]
        ELSE [err |-> "", dir |-> Touch(r.dir, new_segment, t, id)]

(***************************************************************************)
(* WALManager.append, one coroutine p.  The part up to the first write     *)
(* has no suspension point (_rotate_segment awaits nothing); every file    *)
(* operation of _write_entry_to_segment runs in aiofiles' thread pool and  *)
(* is a suspension point.  A write is taken to reach the file when it is   *)
(* made: the file object hands on what exceeds its buffer at once and the  *)
(* rest at the close, also when the block is left by an exception.         *)
(***************************************************************************)
Free == {"idle", "done", "raised"}

\* I/O failures are injected into calls that do not overlap
FaultBound == IF overlap THEN 0 ELSE MaxFaults

IdleCall ==
    [pc |-> "idle", t |-> "", entries |-> <<>>, todo |-> <<>>, target |-> NoName,
     fid |-> 0, err |-> "", wrote |-> <<>>,
     preWal |-> {}, preReady |-> {}, preFull |-> FALSE, rot |-> NoName, scan_ok |-> TRUE]

\* the file with inode id in d, if it is still linked
Linked(d, id) == {nm \in DOMAIN d : d[nm].id = id}

RECURSIVE IsSubseq(_, _)
IsSubseq(a, b) ==
    IF a = <<>> THEN TRUE
    ELSE IF b = <<>> THEN FALSE
    ELSE IF Head(a) = Head(b) THEN IsSubseq(Tail(a), Tail(b))
    ELSE IsSubseq(a, Tail(b))

RECURSIVE SelectFid(_, _)
\* the entries of wrote (a list of <<entry, inode>>) that went to inode id
SelectFid(wrote, id) ==
    IF wrote = <<>> THEN <<>>
    ELSE IF Head(wrote)[2] = id THEN <<Head(wrote)[1]>> \o SelectFid(Tail(wrote), id)
    ELSE SelectFid(Tail(wrote), id)

WroteIds(wrote) == {wrote[i][2] : i \in 1..Len(wrote)}

\* history: the returned call's entries are added to the files they went to
CreditFiles(d, wrote) ==
    [nm \in DOMAIN d |->
        IF d[nm].id \in WroteIds(wrote)
        THEN [d[nm] EXCEPT !.ok = @ \o SelectFid(wrote, d[nm].id)]
        ELSE d[nm]]

\* the reader scan of every file the call wrote to yields, in order, all
\* entries of the calls that returned and wrote to it
ScanYieldsAll(d, wrote) ==
    \A id \in WroteIds(wrote) :
        /\ Linked(d, id) # {}
        /\ \A nm \in Linked(d, id) :
              LET r == _read_segment_entries(Bytes(d[nm].data))
              IN  ~r.raised /\ IsSubseq(d[nm].ok, r.entries)

\* first part of append: select the segment, rotate if a rule fires.
\* Coroutine a2 is used only while a1 is busy, and calls that overlap are
\* calls for one tenant: calls for different tenants touch different
\* directories, so every interleaving of them equals one without overlap.
AppendCall(p, t, n, io_fails) ==
    /\ ~ForwarderRuns
    /\ app[p].pc \in Free
    /\ p = "a2" => overlap /\ app["a1"].pc \notin Free
    /\ \A q \in Procs \ {p} : app[q].pc \notin Free => app[q].t = t
    /\ calls < (IF overlap THEN MaxAppendsOverlap ELSE MaxAppends)
    /\ LET d == dir[t]
           current_segment == _get_current_segment_path(d)
           exists == current_segment \in DOMAIN d
           rotate == exists /\ _should_rotate_segment(d[current_segment], now)
           r == _rotate_segment(d, now, nextId, io_fails)
           d1 == IF rotate THEN r.dir ELSE d
           err == IF ~exists THEN "FileNotFoundError"
                  ELSE IF rotate THEN r.err ELSE ""
           call == [IdleCall EXCEPT
                      !.t = t,
                      !.entries = [i \in 1..n |-> calls * MaxBatch + i],
                      !.todo = [i \in 1..n |-> calls * MaxBatch + i],
                      !.preWal = {nm.num : nm \in GlobWal(d)},
                      !.preReady = {nm.num : nm \in GlobReady(d)},
                      !.preFull = /\ GlobWal(d) # {}
                                  /\ st_size(d[Highest(GlobWal(d))]) >= segment_max_bytes,
                      !.rot = IF rotate /\ r.err \in {"", "OSError"}
                              THEN current_segment ELSE NoName]
       IN  /\ io_fails => (faults < FaultBound /\ rotate /\ r.err = "OSError")
           /\ faults' = IF io_fails THEN faults + 1 ELSE faults
           /\ dir' = [dir EXCEPT ![t] = d1]
           /\ nextId' = IF rotate /\ err = "" THEN nextId + 1 ELSE nextId
           /\ app' = [app EXCEPT ![p] =
                 IF err # "" THEN [call EXCEPT !.pc = "raised", !.err = err]
                 ELSE [call EXCEPT !.pc = "open",
                                   !.target = _get_current_segment_path(d1)]]
    /\ calls' = calls + 1
    /\ UNCHANGED <<svcVars, histVars, probe, apiVars, platform, overlap, now, ticks, acked, fwdVars>>

\* f.write(bytes) through the open handle: the bytes go to the inode,
\* whatever its name is now, and are lost when it has been unlinked
WriteToInode(d, id, e, part, t) ==
    [nm \in DOMAIN d |->
        IF d[nm].id = id
        THEN [d[nm] EXCEPT !.data = Append(@, <<e, part>>), !.mtime = t]
        ELSE d[nm]]

\* aio_open(segment_path, 'ab'), which creates the file when the name is
\* missing, and f.write(length_prefix)
AppendOpen(p) ==
    /\ ~ForwarderRuns
    /\ app[p].pc = "open"
    /\ LET t == app[p].t
           nm == app[p].target
           d1 == IF nm \in DOMAIN dir[t] THEN dir[t]
                 ELSE Put(dir[t], nm, NewFile(nextId, now))
           id == d1[nm].id
       IN  /\ dir' = [dir EXCEPT ![t] =
                        WriteToInode(d1, id, Head(app[p].todo), 1, now)]
           /\ nextId' = IF nm \in DOMAIN dir[t] THEN nextId ELSE nextId + 1
           /\ app' = [app EXCEPT ![p].pc = "data", ![p].fid = id]
    /\ UNCHANGED <<svcVars, histVars, probe, apiVars, platform, overlap, now, ticks, faults, calls, acked, fwdVars>>

\* f.write(entry_data), then f.write(checksum_bytes) and the close; after
\* the last entry append returns
AppendWrite(p) ==
    /\ ~ForwarderRuns
    /\ app[p].pc \in {"data", "checksum"}
    /\ LET t == app[p].t
           e == Head(app[p].todo)
           part == IF app[p].pc = "data" THEN 2 ELSE 3
           d1 == WriteToInode(dir[t], app[p].fid, e, part, now)
           wrote1 == Append(app[p].wrote, <<e, app[p].fid>>)
           returns == app[p].pc = "checksum" /\ Len(app[p].todo) = 1
           d2 == IF returns THEN CreditFiles(d1, wrote1) ELSE d1
       IN  /\ dir' = [dir EXCEPT ![t] = d2]
           /\ app' = [app EXCEPT ![p] =
                 IF app[p].pc = "data"
                 THEN [@ EXCEPT !.pc = "checksum"]
                 ELSE IF ~returns
                 THEN [@ EXCEPT !.pc = "open", !.fid = 0, !.todo = Tail(@),
                                !.wrote = wrote1]
                 ELSE [@ EXCEPT !.pc = "done", !.fid = 0, !.todo = <<>>,
                                !.wrote = wrote1,
                                !.scan_ok = ScanYieldsAll(d2, wrote1)]]
           /\ acked' = IF returns
                       THEN acked \cup {<<t, app[p].entries[i]>> : i \in 1..Len(app[p].entries)}
                       ELSE acked
    /\ UNCHANGED <<svcVars, histVars, probe, apiVars, platform, overlap, now, ticks, faults, calls, nextId, fwdVars>>

\* a write raises (disk full, I/O error): append propagates the exception
AppendWriteFails(p) ==
    /\ ~ForwarderRuns
    /\ app[p].pc \in {"data", "checksum"}
    /\ faults < FaultBound
    /\ faults' = faults + 1
    /\ app' = [app EXCEPT ![p].pc = "raised", ![p].err = "OSError", ![p].fid = 0]
    /\ UNCHANGED <<svcVars, histVars, probe, apiVars, platform, overlap, now, ticks, calls, nextId, dir, acked, fwdVars>>

\* time passes
Tick(s) ==
    /\ ~ForwarderRuns
    /\ ticks < (IF overlap THEN MaxTicksOverlap ELSE MaxTicks)
    /\ ticks' = ticks + 1
    /\ now' = now + s
    /\ UNCHANGED <<svcVars, histVars, probe, apiVars, platform, overlap, walVars, fwdVars>>

Min(a, b) == IF a <= b THEN a ELSE b
Max(a, b) == IF a >= b THEN a ELSE b

(***************************************************************************)
(* ForwarderService and the LokiForwarder it starts.  _running, forwarder  *)
(* and tasks are the service's fields (tasks counts the loop tasks that    *)
(* were created and not cancelled), fwd_running and session those of the   *)
(* LokiForwarder (sessions counts the open ClientSessions).  starts, stops *)
(* and forced count the calls made so far; flushes is the history of the   *)
(* answers of the flush endpoint.                                          *)
(***************************************************************************)
NewService ==
    [_running |-> FALSE, forwarder |-> FALSE, tasks |-> 0,
     fwd_running |-> FALSE, session |-> FALSE, sessions |-> 0,
     stopping |-> FALSE, starts |-> 0, stops |-> 0, forced |-> 0, flushes |-> {}]

\* LokiForwarder.start()
LokiForwarder_start(s) ==
    IF s.fwd_running THEN s
    ELSE [s EXCEPT !.fwd_running = TRUE, !.session = TRUE, !.sessions = @ + 1]

\* LokiForwarder.stop()
LokiForwarder_stop(s) ==
    [s EXCEPT !.fwd_running = FALSE, !.session = FALSE,
              !.sessions = IF s.session THEN @ - 1 ELSE @]

\* ForwarderService.start() without its first two lines, the test of
\* self._running
start_unguarded(s) ==
    [LokiForwarder_start([s EXCEPT !.forwarder = TRUE]) EXCEPT
        !._running = TRUE, !.tasks = @ + 1]

\* ForwarderService.start(): awaiting LokiForwarder.start() does not
\* suspend, so the call is one step
start(s) ==
    IF s._running THEN s
    ELSE [LokiForwarder_start([s EXCEPT !.forwarder = TRUE]) EXCEPT
             !._running = TRUE, !.tasks = @ + 1]

\* the service as the application's lifespan leaves it: started once
StartedService == [start(NewService) EXCEPT !.starts = 1]

(***************************************************************************)
(* LokiForwarder.forward_ready_segments, one cycle.  Reading a segment has *)
(* no suspension point; the POST and the sleeps have.  The cycle w is the  *)
(* one of the background loop ("loop", in fwd) or the one force_forward    *)
(* runs ("force", in force).                                               *)
(***************************************************************************)
IdleForwarder ==
    [pc |-> "idle", todo |-> {}, tenant |-> "", path |-> NoName, entries |-> <<>>,
     attempt |-> 0, total_entries |-> 0, processed_segments |-> 0]

Cyc(w) == IF w = "loop" THEN fwd ELSE force

\* the ForwardingResult a cycle returns
ForwardingResult(success, entries_forwarded, segments_processed, error_message) ==
    [success |-> success, entries_forwarded |-> entries_forwarded,
     segments_processed |-> segments_processed, error_message |-> error_message]

\* the result of a cycle that went through its segments
CycleResult(c) ==
    ForwardingResult(c.processed_segments > 0, c.total_entries,
                     c.processed_segments, "None")

\* the result of a cycle that ends at once: no session, or no ready segment
EarlyResult ==
    IF ~service.session THEN ForwardingResult(FALSE, 0, 0, "Forwarder not started")
    ELSE ForwardingResult(TRUE, 0, 0, "None")

\* flush_wal_segments on the dict force_forward makes of the result: 200
\* with the counts on success, else HTTP 500 with a detail and no counts
flush_wal_segments(result) ==
    IF result.success
    THEN [status |-> 200, detail |-> "Flush completed successfully",
          counts |-> <<result.entries_forwarded, result.segments_processed>>]
    ELSE [status |-> 500, detail |-> result.error_message, counts |-> <<>>]

SetCyc(w, c) ==
    /\ fwd' = IF w = "loop" THEN c ELSE fwd
    /\ force' = IF w = "loop" THEN force ELSE c

\* an entry of the history posts
Event(kind, w, c, answer, seconds) ==
    [kind |-> kind, who |-> w, seg |-> <<c.tenant, c.path>>, attempt |-> c.attempt,
     entries |-> c.entries,
     data |-> IF c.path \in DOMAIN dir[c.tenant] THEN dir[c.tenant][c.path].data
              ELSE <<>>,
     answer |-> answer, seconds |-> seconds]

Log(events) == IF record THEN posts \o events ELSE posts

\* get_ready_segments(None): the .ready files of every tenant directory
get_ready_segments ==
    UNION {{<<t, nm>> : nm \in GlobReady(dir[t])} : t \in Tenants}

\* the start of a cycle, by _run_forwarder_loop or by force_forward; without
\* a session the cycle ends at once ("Forwarder not started").  MaxCycles
\* counts the cycles of the loop that find a segment, MaxForced the calls of
\* force_forward
FwdCycle(w) ==
    /\ ~ForwarderRuns
    /\ Cyc(w).pc = "idle"
    /\ IF w = "loop"
       THEN service.tasks > 0 /\ cycles < MaxCycles
       ELSE service.forwarder /\ service.forced < MaxForced
    /\ LET found == service.session /\ get_ready_segments # {}
       IN  /\ cycles' = IF w = "loop" /\ found THEN cycles + 1 ELSE cycles
           /\ service' = IF w = "loop" THEN service
                         ELSE [service EXCEPT
                                 !.forced = @ + 1,
                                 !.flushes = IF found THEN @
                                             ELSE @ \cup {flush_wal_segments(EarlyResult)}]
           /\ SetCyc(w, IF found
                        THEN [IdleForwarder EXCEPT !.pc = "next",
                                                   !.todo = get_ready_segments]
                        ELSE IdleForwarder)
    /\ posts' = IF w = "loop" THEN <<>> ELSE posts
    /\ UNCHANGED <<record, taken, masking, probe, apiVars, platform, overlap, now, ticks, walVars, delivered, removed>>

\* the next segment of the list: _read_segment_entries; a file that is
\* gone or a raise of the reader is logged and the segment left alone, an
\* empty list is skipped
FwdRead(w, seg) ==
    /\ Cyc(w).pc = "next"
    /\ seg \in Cyc(w).todo
    /\ LET d == dir[seg[1]]
           exists == seg[2] \in DOMAIN d
           r == _read_segment_entries(Bytes(d[seg[2]].data))
       IN  SetCyc(w, IF exists /\ ~r.raised /\ r.entries # <<>>
                     THEN [Cyc(w) EXCEPT !.pc = "send", !.todo = @ \ {seg},
                                         !.tenant = seg[1], !.path = seg[2],
                                         !.entries = r.entries, !.attempt = 0]
                     ELSE [Cyc(w) EXCEPT !.todo = @ \ {seg}])
    /\ UNCHANGED <<service, histVars, probe, apiVars, platform, overlap, now, ticks, walVars, cycles, delivered, removed>>

\* the end of the loop over the segments; a force flush answers the request
FwdFinish(w) ==
    /\ Cyc(w).pc = "next"
    /\ Cyc(w).todo = {}
    /\ SetCyc(w, [Cyc(w) EXCEPT !.pc = "idle"])
    /\ service' = IF w = "loop" THEN service
                  ELSE [service EXCEPT
                          !.flushes = @ \cup {flush_wal_segments(CycleResult(Cyc(w)))}]
    /\ UNCHANGED <<histVars, probe, apiVars, platform, overlap, now, ticks, walVars, cycles, delivered, removed>>

\* Path.unlink(); on Windows a file that is open cannot be deleted, and
\* delete_segment logs the error
Unlink(d, nm) ==
    IF nm \notin DOMAIN d THEN d
    ELSE IF platform = "windows" /\ d[nm].id \in OpenIds THEN d
    ELSE Del(d, nm)

\* a delete that clears the ready files of the directory
delete_segment_sweeping(d, nm) ==
    IF nm \notin DOMAIN d THEN d
    ELSE [x \in {y \in DOMAIN d : y.suf # "ready"} |-> d[x]]

\* WALManager.delete_segment(segment_path)
delete_segment(d, nm) == Unlink(d, nm)

Range(q) == {q[i] : i \in 1..Len(q)}

\* what the POST of _send_to_loki can end with: a status, or an exception
Answers == {"204", "200", "400", "429", "500", "raise"}

\* the sleep of _forward_entries_to_loki after attempt i raised
Backoff(i) ==
    IF i < max_retries
    THEN backoff_seconds[Min(i, Len(backoff_seconds) - 1) + 1]
    ELSE backoff_park_seconds

\* one attempt of _forward_entries_to_loki: _send_to_loki makes no POST
\* without a session ("none"); else the POST is answered 204, answered with
\* another status, or raises
FwdSend(w, answer) ==
    /\ ~ForwarderRuns
    /\ Cyc(w).pc = "send"
    /\ answer = "none" <=> ~service.session
    /\ LET c == Cyc(w)
           t == c.tenant
           d == dir[t]
           d1 == delete_segment(d, c.path)
           post == Event("post", w, c, answer, 0)
       IN  \/ /\ answer = "204"
              /\ dir' = [dir EXCEPT ![t] = d1]
              /\ delivered' = delivered \cup Range(c.entries)
              /\ removed' = IF d1 = d THEN removed
                            ELSE removed \cup
                                 {[sent |-> c.entries,
                                   had |-> _read_segment_entries(Bytes(d[c.path].data)).entries]}
              /\ posts' = Log(<<post, Event("delete", w, c, answer, 0)>>)
              /\ SetCyc(w, [c EXCEPT !.pc = "next",
                                     !.total_entries = @ + Len(c.entries),
                                     !.processed_segments = @ + 1])
           \/ /\ answer \notin {"204", "raise"}
              /\ posts' = IF answer = "none" THEN posts ELSE Log(<<post>>)
              /\ SetCyc(w, IF c.attempt < max_retries
                           THEN [c EXCEPT !.attempt = @ + 1]
                           ELSE [c EXCEPT !.pc = "next"])
              /\ UNCHANGED <<dir, delivered, removed>>
           \/ /\ answer = "raise"
              /\ posts' = Log(<<post, Event("sleep", w, c, answer, Backoff(c.attempt))>>)
              /\ SetCyc(w, [c EXCEPT !.pc = "sleep"])
              /\ UNCHANGED <<dir, delivered, removed>>
    /\ UNCHANGED <<service, record, taken, masking, probe, apiVars, platform, overlap, now, ticks, faults, calls, nextId, app, acked, cycles>>

\* a loop over range(max_retries + 2): one attempt more after a raise
FwdWake_once_more(w) ==
    /\ ~ForwarderRuns
    /\ Cyc(w).pc = "sleep"
    /\ SetCyc(w, IF Cyc(w).attempt < max_retries + 1
                 THEN [Cyc(w) EXCEPT !.pc = "send", !.attempt = @ + 1]
                 ELSE [Cyc(w) EXCEPT !.pc = "next"])
    /\ UNCHANGED <<service, histVars, probe, apiVars, platform, overlap, now, ticks, walVars, cycles, delivered, removed>>

\* the end of asyncio.sleep(backoff_seconds[..]) or of the park sleep
FwdWake(w) ==
    /\ ~ForwarderRuns
    /\ Cyc(w).pc = "sleep"
    /\ SetCyc(w, IF Cyc(w).attempt < max_retries
                 THEN [Cyc(w) EXCEPT !.pc = "send", !.attempt = @ + 1]
                 ELSE [Cyc(w) EXCEPT !.pc = "next"])
    /\ UNCHANGED <<service, histVars, probe, apiVars, platform, overlap, now, ticks, walVars, cycles, delivered, removed>>

\* ForwarderService.start(), called once more
ServiceStart ==
    /\ ~ForwarderRuns
    /\ service.starts < MaxStarts
    /\ service' = [start(service) EXCEPT !.starts = @ + 1]
    /\ UNCHANGED <<fwd, force, histVars, probe, apiVars, platform, overlap, now, ticks, walVars, cycles, delivered, removed>>

\* ForwarderService.stop() up to 'await self._task': the loop task is
\* cancelled, and the CancelledError ends its cycle where it is suspended
ServiceStop ==
    /\ ~ForwarderRuns
    /\ service.stops < MaxStops
    /\ service._running
    /\ ~service.stopping
    /\ service' = [service EXCEPT !._running = FALSE, !.tasks = @ - 1,
                                  !.stopping = TRUE, !.stops = @ + 1]
    /\ fwd' = IdleForwarder
    /\ UNCHANGED <<force, histVars, probe, apiVars, platform, overlap, now, ticks, walVars, cycles, delivered, removed>>

\* the rest of stop(): 'await self.forwarder.stop()'
ServiceStopped ==
    /\ ~ForwarderRuns
    /\ service.stopping
    /\ service' = [LokiForwarder_stop(service) EXCEPT !.stopping = FALSE]
    /\ UNCHANGED <<fwd, force, histVars, probe, apiVars, platform, overlap, now, ticks, walVars, cycles, delivered, removed>>

(***************************************************************************)
(* The ingest endpoint: authenticate_token, check_rate_limit, then         *)
(* ProcessingPipeline.process_batch.  None of them suspends (the bucket's  *)
(* lock is free whenever it is taken), so one request is one step.  The    *)
(* clock is read at whole seconds.                                         *)
(***************************************************************************)
\* int(a / b) for b > 0: rounds toward zero
Trunc(a, b) == IF a >= 0 THEN a \div b ELSE -((-a) \div b)

\* settings.security.api_keys, and the bearer tokens clients present
api_keys == [k \in Tenants \cup {"revoked"} |-> [active |-> k \in Tenants]]
Credentials == Tenants \cup {"revoked", "unknown"}

authenticate_token(cred) ==
    IF cred \notin DOMAIN api_keys THEN FALSE ELSE api_keys[cred].active

NoBucket == [made |-> FALSE, tokens |-> 0, last_refill |-> 0]
TokenBucket(capacity, t) == [made |-> TRUE, tokens |-> capacity, last_refill |-> t]

\* TokenBucket.consume(tokens) at time t: [ok, bucket]
\* consume variants that differ from the code in one place each
consume_charges_failure(b, tokens, t) ==
    LET filled == Min(rate_limit_burst, b.tokens + (t - b.last_refill) * rate_limit_rps)
    IN  [ok |-> filled >= tokens,
         bucket |-> [b EXCEPT !.tokens = IF filled >= tokens THEN filled - tokens ELSE 0,
                              !.last_refill = t]]

consume_at_least_one(b, tokens, t) ==
    LET filled == Min(rate_limit_burst, b.tokens + (t - b.last_refill) * rate_limit_rps)
        n == Max(1, tokens)
    IN  [ok |-> filled >= n,
         bucket |-> [b EXCEPT !.tokens = IF filled >= n THEN filled - n ELSE filled,
                              !.last_refill = t]]

consume_strict(b, tokens, t) ==
    LET filled == Min(rate_limit_burst, b.tokens + (t - b.last_refill) * rate_limit_rps)
    IN  [ok |-> filled > tokens,
         bucket |-> [b EXCEPT !.tokens = IF filled > tokens THEN filled - tokens ELSE filled,
                              !.last_refill = t]]

consume_uncapped(b, tokens, t) ==
    LET filled == b.tokens + (t - b.last_refill) * rate_limit_rps
    IN  [ok |-> filled >= tokens,
         bucket |-> [b EXCEPT !.tokens = IF filled >= tokens THEN filled - tokens ELSE filled,
                              !.last_refill = t]]

consume(b, tokens, t) ==
    LET time_passed == t - b.last_refill
        tokens_to_add == time_passed * rate_limit_rps
        filled == Min(rate_limit_burst, b.tokens + tokens_to_add)
    IN  [ok |-> filled >= tokens,
         bucket |-> [b EXCEPT !.tokens = IF filled >= tokens THEN filled - tokens
                                         ELSE filled,
                              !.last_refill = t]]

\* TokenBucket.consume(tokens) with the clock read in 1/ClockHz seconds:
\* int(time_passed * refill_rate) drops the fraction of a token, and
\* last_refill moves to now whatever was added
consume_fine(b, tokens, t) ==
    LET time_passed == t - b.last_refill
        tokens_to_add == Trunc(time_passed * rate_limit_rps, ClockHz)
        filled == Min(rate_limit_burst, b.tokens + tokens_to_add)
    IN  [ok |-> filled >= tokens,
         bucket |-> [b EXCEPT !.tokens = IF filled >= tokens THEN filled - tokens
                                         ELSE filled,
                              !.last_refill = t]]

get_retry_after(b) == Max(1, Trunc(1 - b.tokens, rate_limit_rps))

\* RateLimiter.check_rate_limit(token): [ok, bucket, retry_after]
\* check_rate_limit with one bucket for every token
check_rate_limit_shared(token, t) ==
    LET key == CHOOSE x \in Tenants : \A y \in Tenants : buckets[y].made => buckets[x].made
        bucket == IF buckets[key].made THEN buckets[key]
                  ELSE TokenBucket(rate_limit_burst, t)
        c == consume(bucket, 1, t)
    IN  [ok |-> c.ok, bucket |-> c.bucket,
         retry_after |-> IF c.ok THEN 0 ELSE get_retry_after(c.bucket)]

check_rate_limit(token, t) ==
    LET bucket == IF buckets[token].made THEN buckets[token]
                  ELSE TokenBucket(rate_limit_burst, t)
        c == consume(bucket, 1, t)
    IN  [ok |-> c.ok, bucket |-> c.bucket,
         retry_after |-> IF c.ok THEN 0 ELSE get_retry_after(c.bucket)]

\* The history of the calls on the buckets.  Of the last call: its bucket,
\* its argument k, the clock, whether the bucket existed, tokens before and
\* after, the time since the last refill and the result.  zeros counts the
\* consume(0) calls made in a row on that bucket, zero_from and zero_at are
\* tokens and last_refill before the first of them.  ledger[token] counts
\* the calls on a bucket and those that returned true; pure says that all
\* of them were consume(1) at the time the bucket was created.
NoCall ==
    [n |-> 0, token |-> "", k |-> 0, t |-> 0, made |-> FALSE, before |-> 0,
     elapsed |-> 0, after |-> 0, ok |-> FALSE,
     zeros |-> 0, zero_from |-> 0, zero_at |-> 0,
     ledger |-> [x \in Tenants |-> [born |-> 0, pure |-> TRUE, asked |-> 0, admitted |-> 0]]]

Called(token, k, old, c) ==
    LET again == taken.n > 0 /\ taken.token = token /\ taken.zeros > 0
        l == taken.ledger[token]
        born == IF l.asked = 0 THEN old.last_refill ELSE l.born
    IN  [n |-> taken.n + 1, token |-> token, k |-> k, t |-> now,
         made |-> buckets[token].made, before |-> old.tokens,
         elapsed |-> now - old.last_refill, after |-> c.bucket.tokens, ok |-> c.ok,
         zeros |-> IF k # 0 THEN 0 ELSE IF again THEN taken.zeros + 1 ELSE 1,
         zero_from |-> IF k = 0 /\ again THEN taken.zero_from ELSE old.tokens,
         zero_at |-> IF k = 0 /\ again THEN taken.zero_at ELSE old.last_refill,
         ledger |-> [taken.ledger EXCEPT ![token] =
                       [born |-> born,
                        pure |-> l.pure /\ k = 1 /\ now = born,
                        asked |-> l.asked + 1,
                        admitted |-> l.admitted + (IF c.ok THEN 1 ELSE 0)]]]

\* RateLimiter.check_rate_limit(token), called on its own
CheckRateLimit(token) ==
    /\ ~ForwarderRuns
    /\ taken.n < MaxCalls
    /\ LET old == IF buckets[token].made THEN buckets[token]
                  ELSE TokenBucket(rate_limit_burst, now)
           rl == check_rate_limit(token, now)
       IN  /\ buckets' = [buckets EXCEPT ![token] = rl.bucket]
           /\ taken' = Called(token, 1, old, rl)
    /\ UNCHANGED <<svcVars, posts, record, masking, probe, responses, platform, overlap, now, ticks, walVars, fwdVars>>

\* TokenBucket.consume(k) on the bucket of a token
Consume(token, k) ==
    /\ ~ForwarderRuns
    /\ taken.n < MaxCalls
    /\ buckets[token].made
    /\ LET c == consume(buckets[token], k, now)
       IN  /\ buckets' = [buckets EXCEPT ![token] = c.bucket]
           /\ taken' = Called(token, k, buckets[token], c)
    /\ UNCHANGED <<svcVars, posts, record, masking, probe, responses, platform, overlap, now, ticks, walVars, fwdVars>>

\* the entries of request number r: identifiers no append call uses
RequestEntries(r, n) == [i \in 1..n |-> 100 * r + i]

(***************************************************************************)
(* The masking engine.  A string is the sequence of its characters, each   *)
(* its code point ('*' 42, '@' 64, 'a' 97).                                *)
(***************************************************************************)
\* '*' * n
Stars(n) == [i \in 1..n |-> 42]

\* str.lower() on the letters A..Z
lower(str) == [i \in 1..Len(str) |-> IF str[i] >= 65 /\ str[i] <= 90 THEN str[i] + 32 ELSE str[i]]

\* sub in str
Contains(str, sub) ==
    \E i \in 0..(Len(str) - Len(sub)) : SubSeq(str, i + 1, i + Len(sub)) = sub

\* value[:n] and value[-n:] for n >= 0; value[-0:] is value[0:], the whole
\* string
SlicePrefix(value, n) == SubSeq(value, 1, Min(n, Len(value)))
SliceSuffix(value, n) ==
    IF n = 0 THEN value ELSE SubSeq(value, Max(1, Len(value) - n + 1), Len(value))

\* the names of the model: keys of entries, keys of the configuration
k_password == <<112, 97, 115, 115, 119, 111, 114, 100>>
k_authorization == <<97, 117, 116, 104, 111, 114, 105, 122, 97, 116, 105, 111, 110>>
k_Authorization == <<65, 117, 116, 104, 111, 114, 105, 122, 97, 116, 105, 111, 110>>
k_email == <<101, 109, 97, 105, 108>>
k_user_email == <<117, 115, 101, 114, 95, 101, 109, 97, 105, 108>>
k_message == <<109, 101, 115, 115, 97, 103, 101>>
k_metadata == <<109, 101, 116, 97, 100, 97, 116, 97>>
k_items == <<105, 116, 101, 109, 115>>

\* settings.masking.baseline_keys and the patterns of _should_mask_key
baseline_keys == {k_password, <<116, 111, 107, 101, 110>>, k_authorization, <<97, 112, 105, 95, 107, 101, 121>>, <<115, 101, 99, 114, 101, 116>>, <<99, 97, 114, 100, 95, 110, 117, 109, 98, 101, 114>>}
sensitive_patterns ==
    {<<99, 97, 114, 100>>,
     <<99, 114, 101, 100, 105, 116>>,
     <<115, 115, 110>>,
     <<115, 111, 99, 105, 97, 108>>,
     <<112, 104, 111, 110, 101>>,
     <<101, 109, 97, 105, 108>>,
     <<112, 97, 115, 115>>,
     <<112, 119, 100>>,
     <<107, 101, 121>>,
     <<116, 111, 107, 101, 110>>,
     <<97, 117, 116, 104>>,
     <<115, 101, 99, 114, 101, 116>>,
     <<112, 114, 105, 118, 97, 116, 101>>,
     <<99, 111, 110, 102, 105, 100, 101, 110, 116, 105, 97, 108>>,
     <<115, 101, 110, 115, 105, 116, 105, 118, 101>>}

\* MaskingEngine._should_mask_key(key, mask_keys)
_should_mask_key(key, mask_keys) ==
    \/ \E mask_key \in mask_keys :
          lower(key) = lower(mask_key) \/ Contains(lower(key), lower(mask_key))
    \/ \E pattern \in sensitive_patterns : Contains(lower(key), pattern)

\* MaskingEngine._apply_full_masking(value)
_apply_full_masking(value) ==
    IF value = <<>> THEN Stars(4)
    ELSE IF Len(value) <= 4 THEN Stars(4)
    ELSE IF Len(value) <= 16 THEN Stars(4)
    ELSE Stars(4) \o <<91>> \o Digits(Len(value)) \o <<32, 99, 104, 97, 114, 115, 93>>

\* MaskingEngine._mask_email(email); split('@', 1) cuts at the first '@'
_mask_email(email) ==
    IF email = <<>> \/ ~Contains(email, <<64>>) THEN Stars(4)
    ELSE LET at == CHOOSE i \in 1..Len(email) :
                      email[i] = 64 /\ \A j \in 1..(i - 1) : email[j] # 64
             local_part == SubSeq(email, 1, at - 1)
             domain == SubSeq(email, at + 1, Len(email))
             masked_local ==
                 IF Len(local_part) <= 2 THEN Stars(4)
                 ELSE <<local_part[1]>> \o Stars(Min(5, Len(local_part) - 2))
                      \o <<local_part[Len(local_part)]>>
         IN  masked_local \o <<64>> \o domain

\* MaskingEngine._apply_partial_masking(value, rule_config); rule_config is
\* a dict, here a function on the keys it holds
_apply_partial_masking(value, rule_config) ==
    IF value = <<>> THEN Stars(4)
    ELSE IF "mask_email" \in DOMAIN rule_config /\ rule_config["mask_email"] # 0
    THEN _mask_email(value)
    ELSE IF "keep_prefix" \in DOMAIN rule_config
    THEN IF Len(value) <= rule_config["keep_prefix"] THEN Stars(4)
         ELSE SlicePrefix(value, rule_config["keep_prefix"]) \o Stars(4)
    ELSE IF "keep_suffix" \in DOMAIN rule_config
    THEN IF Len(value) <= rule_config["keep_suffix"] THEN Stars(4)
         ELSE Stars(4) \o SliceSuffix(value, rule_config["keep_suffix"])
    ELSE _apply_full_masking(value)

\* partial_rules is a dict, here the list of its <<rule_key, rule_config>>
\* in order.  The first rule whose key is the key, and the first whose key
\* is contained in the key; 0 when there is none
ExactRule(partial_rules, key_lower) ==
    IF \E i \in 1..Len(partial_rules) : key_lower = lower(partial_rules[i][1])
    THEN CHOOSE i \in 1..Len(partial_rules) :
            /\ key_lower = lower(partial_rules[i][1])
            /\ \A j \in 1..(i - 1) : key_lower # lower(partial_rules[j][1])
    ELSE 0
PartialRule(partial_rules, key_lower) ==
    IF \E i \in 1..Len(partial_rules) : Contains(key_lower, lower(partial_rules[i][1]))
    THEN CHOOSE i \in 1..Len(partial_rules) :
            /\ Contains(key_lower, lower(partial_rules[i][1]))
            /\ \A j \in 1..(i - 1) : ~Contains(key_lower, lower(partial_rules[j][1]))
    ELSE 0

\* the rule_config _mask_value applies to the key: a function on no key
\* when no rule matches
RuleFor(partial_rules, key) ==
    LET exact == ExactRule(partial_rules, lower(key))
        partial == PartialRule(partial_rules, lower(key))
    IN  IF exact # 0 THEN <<partial_rules[exact][2]>>
        ELSE IF partial # 0 THEN <<partial_rules[partial][2]>>
        ELSE <<>>

\* MaskingEngine._mask_value(key, value, token) on str(value)
_mask_value(partial_rules, key, str_value) ==
    LET rule == RuleFor(partial_rules, key)
    IN  IF rule # <<>> THEN _apply_partial_masking(str_value, rule[1])
        ELSE _apply_full_masking(str_value)

\* The objects of an entry live in a heap, a list of dicts and lists; the
\* address of an object is its position.  A value is a string, None, or the
\* reference to an object; an object holds its items in order, <<key,
\* value>> each (the key of a list item is empty).
StrVal(chars) == [t |-> "str", v |-> chars]
NoneVal == [t |-> "none", v |-> <<>>]
RefVal(addr) == [t |-> "ref", v |-> <<addr>>]
Obj(kind, items) == [kind |-> kind, items |-> items]

\* repr(value) inside a container and str(value)
RECURSIVE Repr(_, _)
RECURSIVE ReprItems(_, _, _)
ReprItems(h, o, i) ==
    IF i > Len(o.items) THEN <<>>
    ELSE (IF i > 1 THEN <<44, 32>> ELSE <<>>)
         \o (IF o.kind = "dict" THEN <<39>> \o o.items[i][1] \o <<39, 58, 32>> ELSE <<>>)
         \o Repr(h, o.items[i][2]) \o ReprItems(h, o, i + 1)
Repr(h, value) ==
    IF value.t = "str" THEN <<39>> \o value.v \o <<39>>
    ELSE IF value.t = "none" THEN <<78, 111, 110, 101>>
    ELSE LET o == h[value.v[1]]
         IN  IF o.kind = "dict" THEN <<123>> \o ReprItems(h, o, 1) \o <<125>>
             ELSE <<91>> \o ReprItems(h, o, 1) \o <<93>>
\* str(value) if value is not None else ""
Str(h, value) ==
    IF value.t = "str" THEN value.v ELSE IF value.t = "none" THEN <<>> ELSE Repr(h, value)

\* masking in place: the sensitive values are overwritten in the object
\* itself and the object is returned
RECURSIVE _deep_copy_and_mask_in_place(_, _, _, _)
RECURSIVE MaskItemsInPlace(_, _, _, _, _)
MaskItemsInPlace(h, addr, i, mask_keys, partial_rules) ==
    IF i > Len(h[addr].items) THEN h
    ELSE LET item == h[addr].items[i]
         IN  IF h[addr].kind = "dict" /\ _should_mask_key(item[1], mask_keys)
             THEN MaskItemsInPlace(
                      [h EXCEPT ![addr].items[i] =
                          <<item[1], StrVal(_mask_value(partial_rules, item[1], Str(h, item[2])))>>],
                      addr, i + 1, mask_keys, partial_rules)
             ELSE MaskItemsInPlace(
                      _deep_copy_and_mask_in_place(h, item[2], mask_keys, partial_rules).heap,
                      addr, i + 1, mask_keys, partial_rules)
_deep_copy_and_mask_in_place(h, obj, mask_keys, partial_rules) ==
    IF obj.t = "ref"
    THEN [heap |-> MaskItemsInPlace(h, obj.v[1], 1, mask_keys, partial_rules), val |-> obj]
    ELSE [heap |-> h, val |-> obj]

\* MaskingEngine._deep_copy_and_mask(obj, mask_keys, token): a dict and a
\* list are built anew, item by item, a sensitive key gets the masked string
\* of its value, every other value is copied in turn; a primitive is
\* returned as it is
RECURSIVE _deep_copy_and_mask(_, _, _, _)
RECURSIVE CopyItems(_, _, _, _, _, _)
CopyItems(h, o, i, acc, mask_keys, partial_rules) ==
    IF i > Len(o.items) THEN [heap |-> Append(h, Obj(o.kind, acc)), val |-> RefVal(Len(h) + 1)]
    ELSE LET item == o.items[i]
         IN  IF o.kind = "dict" /\ _should_mask_key(item[1], mask_keys)
             THEN CopyItems(h, o, i + 1,
                            Append(acc, <<item[1],
                                          StrVal(_mask_value(partial_rules, item[1], Str(h, item[2])))>>),
                            mask_keys, partial_rules)
             ELSE LET r == _deep_copy_and_mask(h, item[2], mask_keys, partial_rules)
                  IN  CopyItems(r.heap, o, i + 1, Append(acc, <<item[1], r.val>>),
                                mask_keys, partial_rules)
_deep_copy_and_mask(h, obj, mask_keys, partial_rules) ==
    IF obj.t = "ref"
    THEN CopyItems(h, h[obj.v[1]], 1, <<>>, mask_keys, partial_rules)
    ELSE [heap |-> h, val |-> obj]

\* settings.masking.tenant_overrides and _get_token_overrides(token)
tenant_overrides == [t \in {} |-> {}]
_get_token_overrides(token) ==
    IF token \in DOMAIN tenant_overrides THEN tenant_overrides[token] ELSE {}

\* MaskingEngine.mask_log_entry(entry_data, token) on the heap h
MaskingEngine_mask_log_entry(h, entry_data, token, partial_rules) ==
    _deep_copy_and_mask(h, entry_data, baseline_keys \cup _get_token_overrides(token),
                        partial_rules)

\* the objects reachable from a value
RECURSIVE Reach(_, _)
Reach(h, value) ==
    IF value.t # "ref" THEN {}
    ELSE {value.v[1]} \cup
         UNION {Reach(h, h[value.v[1]].items[i][2]) : i \in 1..Len(h[value.v[1]].items)}

\* The entries and the configurations the masking engine is run on.  An
\* entry is given as a tree and laid out in the heap, children first.
TStr(chars) == [kind |-> "str", v |-> chars, items |-> <<>>]
TDict(items) == [kind |-> "dict", v |-> <<>>, items |-> items]
TList(items) == [kind |-> "list", v |-> <<>>, items |-> items]

RECURSIVE Alloc(_, _)
RECURSIVE AllocItems(_, _, _, _)
AllocItems(h, tree, i, acc) ==
    IF i > Len(tree.items) THEN [heap |-> Append(h, Obj(tree.kind, acc)), val |-> RefVal(Len(h) + 1)]
    ELSE LET r == Alloc(h, tree.items[i][2])
         IN  AllocItems(r.heap, tree, i + 1, Append(acc, <<tree.items[i][1], r.val>>))
Alloc(h, tree) ==
    IF tree.kind = "str" THEN [heap |-> h, val |-> StrVal(tree.v)]
    ELSE AllocItems(h, tree, 1, <<>>)

\* '', 'ab', 'bob@ab', 'alice@corp.io', 'sk-0123456789abcdef'
Values ==
    {<<>>, <<97, 98>>, <<98, 111, 98, 64, 97, 98>>,
     <<97, 108, 105, 99, 101, 64, 99, 111, 114, 112, 46, 105, 111>>,
     <<115, 107, 45, 48, 49, 50, 51, 52, 53, 54, 55, 56, 57, 97, 98, 99, 100, 101, 102>>}

Leaves == {TStr(v) : v \in Values}
Subtrees ==
    Leaves
    \cup {TDict(<<<<k, l>>>>) : k \in {k_user_email, k_message}, l \in Leaves}
    \cup {TList(<<<<<<>>, l>>, <<<<>>, TDict(<<<<k_password, l>>>>)>>>>) : l \in Leaves}
EntryTrees ==
    {TDict(<<<<k_message, TStr(m)>>, <<k, sub>>>>) :
        m \in {<<97, 98>>, <<98, 111, 98, 64, 97, 98>>},
        k \in {k_password, k_Authorization, k_metadata, k_items},
        sub \in Subtrees}

\* settings.masking.partial_rules: the default, none, and one rule of each
\* kind
PartialRules ==
    {<<<<k_authorization, [keep_prefix |-> 5]>>>>,
     <<>>,
     <<<<k_password, [keep_prefix |-> 1]>>>>,
     <<<<k_password, [keep_suffix |-> 2]>>>>,
     <<<<k_email, [mask_email |-> 1]>>>>,
     <<<<k_email, [mask_email |-> 0, keep_prefix |-> 1]>>, <<k_password, [keep_suffix |-> 2]>>>>}

NoMasking ==
    [partial_rules |-> <<<<k_authorization, [keep_prefix |-> 5]>>>>,
     op |-> "none", key |-> <<>>, value |-> <<>>, output |-> <<>>,
     heap |-> <<>>, root |-> NoneVal, heap_after |-> <<>>, result |-> NoneVal]

\* mask_log_entry(entry, token) on the entry of the heap
MaskLogEntry(token) ==
    /\ masking.op = "none"
    /\ masking.root.t = "ref"
    /\ LET r == MaskingEngine_mask_log_entry(masking.heap, masking.root, token,
                                             masking.partial_rules)
       IN  masking' = [masking EXCEPT !.op = "entry", !.heap_after = r.heap,
                                      !.result = r.val]
    /\ UNCHANGED <<svcVars, posts, record, taken, probe, apiVars, platform, overlap, now, ticks, walVars, fwdVars>>

\* _mask_value(key, value, token) for a sensitive key and a string
MaskValue(key, value) ==
    /\ masking.op = "none"
    /\ _should_mask_key(key, baseline_keys)
    /\ masking' = [masking EXCEPT
                     !.op = "value", !.key = key, !.value = value,
                     !.output = _mask_value(masking.partial_rules, key,
                                            Str(masking.heap, StrVal(value)))]
    /\ UNCHANGED <<svcVars, posts, record, taken, probe, apiVars, platform, overlap, now, ticks, walVars, fwdVars>>

\* the keys of entry.dict(): every field of LogEntry
LogEntryKeys ==
    <<"timestamp", "level", "message", "service", "env", "labels",
      "trace_id", "span_id", "metadata">>

\* MaskingEngine.mask_log_entry: a masked copy of the entry
mask_log_entry(entry, token) == [entry |-> entry, masked_for |-> token]

\* mask_log_entries skipping the entries whose masking raises
RECURSIVE mask_log_entries_skipping(_, _, _)
mask_log_entries_skipping(entries, token, bad) ==
    IF entries = <<>> THEN <<>>
    ELSE LET n == Len(entries)
             rest == mask_log_entries_skipping(SubSeq(entries, 1, n - 1), token, bad)
         IN  IF n \in bad THEN rest
             ELSE Append(rest, mask_log_entry(entries[n], token))

\* mask_log_entries(entries, token); bad: the positions of the entries for
\* which mask_log_entry raises
mask_log_entries(entries, token, bad) ==
    [i \in 1..Len(entries) |->
        IF i \in bad
        THEN [error |-> "masking_failed", original_keys |-> LogEntryKeys]
        ELSE mask_log_entry(entries[i], token)]

\* process_batch: the entries are masked, the masked list is counted in a
\* log line and dropped; nothing is handed to WALManager.append
process_batch(token, entries, bad) ==
    [entries_processed |-> Len(entries), entries_rejected |-> 0, wal_bytes_written |-> 0,
     masked_entries |-> mask_log_entries(entries, token, bad)]

\* an ingest that hands the masked list to the WAL: the records of the
\* request, placeholders included, become a ready segment of the tenant
ingest_logs_persisting(cred, n, valid, bad) ==
    /\ ~ForwarderRuns
    /\ Cardinality(responses) < MaxRequests
    /\ bad \subseteq 1..n
    /\ valid /\ authenticate_token(cred)
    /\ LET request_id == Cardinality(responses) + 1
           entries == [i \in 1..n |-> 4 + i]
           nm == [num |-> 1 + request_id, suf |-> "ready"]
           file == [id |-> nextId,
                    data |-> [j \in 1..(3 * n) |-> <<5 + ((j - 1) \div 3), 1 + ((j - 1) % 3)>>],
                    birth |-> now, mtime |-> now, ok |-> entries]
       IN  /\ responses' = responses \cup
                 {[request_id |-> request_id, token |-> cred, entries |-> entries,
                   status |-> 202, entries_accepted |-> n, retry_after |-> 0,
                   valid |-> valid, bad |-> bad,
                   masked |-> mask_log_entries(entries, cred, bad),
                   steps |-> <<"authenticate", "validate", "rate_limit", "mask",
                               "wal_append", "acknowledge">>]}
           /\ dir' = [dir EXCEPT ![cred] =
                        [x \in (DOMAIN @) \cup {nm} |-> IF x = nm THEN file ELSE @[x]]]
           /\ nextId' = nextId + 1
    /\ UNCHANGED <<svcVars, histVars, probe, buckets, platform, overlap, now, ticks,
                   faults, calls, app, acked, fwdVars>>

\* POST /v1/logs:ingest with bearer token cred and n entries; valid: the
\* body passes the validation of IngestRequest.  The dependencies of the
\* handler (authenticate_token) run first, then the body is validated, and
\* only then the handler's body runs.  steps is history: the steps run for
\* the request, in their order; masked is the list mask_log_entries returned
ingest_logs(cred, n, valid, bad) ==
    /\ ~ForwarderRuns
    /\ Cardinality(responses) < MaxRequests
    /\ bad \subseteq 1..n
    /\ (~valid \/ ~authenticate_token(cred)) => bad = {}
    /\ LET request_id == Cardinality(responses) + 1
           entries == RequestEntries(request_id, n)
           answer == [request_id |-> request_id, token |-> cred, entries |-> entries,
                      status |-> 401, entries_accepted |-> 0, retry_after |-> 0,
                      valid |-> valid, bad |-> bad, masked |-> <<>>,
                      steps |-> <<"authenticate">>]
       IN  IF ~authenticate_token(cred)
           THEN /\ responses' = responses \cup {answer}
                /\ UNCHANGED buckets
           ELSE IF ~valid
           THEN /\ responses' = responses \cup
                     {[answer EXCEPT !.status = 422,
                                     !.steps = <<"authenticate", "validate">>]}
                /\ UNCHANGED buckets
           ELSE LET rl == check_rate_limit(cred, now)
                    result == process_batch(cred, entries, bad)
                IN  /\ buckets' = [buckets EXCEPT ![cred] = rl.bucket]
                    /\ responses' = responses \cup
                         {IF rl.ok
                          THEN [answer EXCEPT !.status = 202,
                                              !.entries_accepted = result.entries_processed,
                                              !.masked = result.masked_entries,
                                              !.steps = <<"authenticate", "validate", "rate_limit",
                                                          "mask", "acknowledge">>]
                          ELSE [answer EXCEPT !.status = 429,
                                              !.retry_after = rl.retry_after,
                                              !.steps = <<"authenticate", "validate", "rate_limit">>]}
    /\ UNCHANGED <<svcVars, histVars, probe, platform, overlap, now, ticks, walVars, fwdVars>>

(***************************************************************************)
(* Validation of the request body.  An entry is given by the lengths of    *)
(* its message and of its metadata as JSON; the other fields and the JSON  *)
(* punctuation take entry_overhead bytes.                                  *)
(***************************************************************************)
\* ValidationSettings.entry_bytes_max: read by no code
entry_bytes_max == 32768
\* LogEntry.message max_length, LogBatch.entries max_length and the size
\* limit of LogBatch.validate_batch_size
message_max_length == 8192
batch_max_length == 500
batch_size_limit == 1048576
entry_overhead == 140

\* len(entry.model_dump_json())
SerializedSize(e) == entry_overhead + e.message + e.metadata

RECURSIVE SumSizes(_)
SumSizes(body) == IF body = <<>> THEN 0 ELSE SerializedSize(Head(body)) + SumSizes(Tail(body))

\* the validation of LogEntry: message of 1 to 8192 characters (metadata
\* is checked for depth only)
LogEntryValid(e) == e.message >= 1 /\ e.message <= message_max_length

\* the validation of IngestRequest, through LogBatch: 1 to 500 valid
\* entries whose estimated size is at most 1 MB
IngestRequestValid(body) ==
    /\ Len(body) >= 1 /\ Len(body) <= batch_max_length
    /\ \A i \in 1..Len(body) : LogEntryValid(body[i])
    /\ SumSizes(body) <= batch_size_limit

\* the entries of the model: message empty, of 1, 8192 and 8193 characters;
\* no metadata, or metadata that brings an entry with a message of 8192 or
\* of 1 character to 32 KiB + 1 bytes
EntryShapes ==
    {[message |-> m, metadata |-> d] :
        m \in {0, 1, message_max_length, message_max_length + 1},
        d \in {0, entry_bytes_max + 1 - entry_overhead - message_max_length,
               entry_bytes_max + 1 - entry_overhead - 1}}

Bodies == UNION {[1..n -> EntryShapes] : n \in 1..MaxBatch}

\* POST /v1/logs:ingest by tenant t1 with the body probe holds
IngestBody ==
    /\ probe.decided
    /\ ingest_logs("t1", Len(probe.body), IngestRequestValid(probe.body), {})

(***************************************************************************)
(* _should_rotate_segment evaluated alone on a segment file of a tenant.   *)
(***************************************************************************)
NoProbe == [decided |-> FALSE, tenant |-> "", path |-> NoName, value |-> FALSE]

ShouldRotate(t, nm) ==
    /\ ~probe.decided
    /\ nm \in GlobWal(dir[t])
    /\ probe' = [decided |-> TRUE, tenant |-> t, path |-> nm,
                 value |-> _should_rotate_segment(dir[t][nm], now)]
    /\ UNCHANGED <<svcVars, histVars, apiVars, platform, overlap, now, ticks, walVars, fwdVars>>

(***************************************************************************)
(* The disk at construction: WALManager.__init__ only makes sure wal_root  *)
(* exists.  A tenant directory is empty or holds an empty segment_001.wal  *)
(* (append fails at once in an empty directory, so the behaviours with     *)
(* overlapping calls start from directories that hold the segment).        *)
(***************************************************************************)
InitDirs ==
    {EmptyDir, Put(EmptyDir, Name(1, "wal"), NewFile(1, 0))}

Init ==
    /\ platform \in Platforms
    /\ overlap \in BOOLEAN
    /\ now = 0
    /\ ticks = 0
    /\ faults = 0
    /\ calls = 0
    /\ nextId = 2
    /\ dir \in [Tenants -> InitDirs]
    /\ overlap => \A t \in Tenants : dir[t] # EmptyDir
    /\ app = [p \in Procs |-> IdleCall]
    /\ acked = {}
    /\ fwd = IdleForwarder
    /\ cycles = 0
    /\ delivered = {}
    /\ removed = {}
    /\ buckets = [k \in Tenants |-> NoBucket]
    /\ responses = {}
    /\ probe = NoProbe
    /\ posts = <<>>
    /\ record = FALSE
    /\ taken = NoCall
    /\ masking = NoMasking
    /\ force = IdleForwarder
    /\ service = StartedService

Next ==
    \/ \E p \in Procs, t \in Tenants, n \in 1..MaxBatch, io_fails \in BOOLEAN :
          AppendCall(p, t, n, io_fails)
    \/ \E p \in Procs : AppendOpen(p)
    \/ \E p \in Procs : AppendWrite(p)
    \/ \E p \in Procs : AppendWriteFails(p)
    \/ \E s \in TickSteps : Tick(s)
    \/ FwdCycle("loop")
    \/ \E seg \in fwd.todo : FwdRead("loop", seg)
    \/ FwdFinish("loop")
    \/ \E answer \in {"204", "500", "raise"} : FwdSend("loop", answer)
    \/ FwdWake("loop")

Spec == Init /\ [][Next]_vars

(***************************************************************************)
(* The ingest endpoint alone: requests and the clock, second by second.    *)
(***************************************************************************)
InitIngest == Init /\ platform = "posix" /\ ~overlap

NextIngest ==
    \/ \E cred \in Credentials, n \in 1..MaxBatch, valid \in BOOLEAN :
          ingest_logs(cred, n, valid, {})
    \/ Tick(1)

SpecIngest == InitIngest /\ [][NextIngest]_vars

(***************************************************************************)
(* The rate limiter alone: check_rate_limit and consume(k) on the buckets  *)
(* of the tenants, and the clock, second by second.                        *)
(***************************************************************************)
InitBucket == InitIngest

NextBucket ==
    \/ \E token \in Tenants : CheckRateLimit(token)
    \/ \E token \in Tenants, k \in 0..MaxConsume : Consume(token, k)
    \/ Tick(1)

SpecBucket == InitBucket /\ [][NextBucket]_vars

(***************************************************************************)
(* The token bucket called at any spacing.  The clock is read in units of  *)
(* 1/ClockHz second; a caller calls consume(1) on the bucket of its token  *)
(* whenever it likes.  probe keeps, for the bucket of t1, the time of the  *)
(* call that emptied it first and the calls admitted since.                *)
(***************************************************************************)
InitRecovery == InitIngest

\* time passes: d clock units
Pass(d) ==
    /\ now < MaxClock
    /\ now' = now + d
    /\ UNCHANGED <<svcVars, histVars, probe, apiVars, platform, overlap, ticks, walVars, fwdVars>>

\* check_rate_limit(token): the bucket is made at the first call, then
\* consume(1)
PollBucket(token) ==
    /\ LET old == IF buckets[token].made THEN buckets[token]
                  ELSE TokenBucket(rate_limit_burst, now)
           c == consume_fine(old, 1, now)
       IN  /\ buckets' = [buckets EXCEPT ![token] = c.bucket]
           /\ probe' = IF token # "t1" THEN probe
                       ELSE IF probe.decided
                       THEN [probe EXCEPT !.admitted = IF c.ok THEN @ + 1 ELSE @]
                       ELSE IF c.bucket.tokens = 0
                       THEN [decided |-> TRUE, since |-> now, admitted |-> 0]
                       ELSE probe
    /\ UNCHANGED <<svcVars, histVars, responses, platform, overlap, now, ticks, walVars, fwdVars>>

NextRecovery ==
    \/ \E d \in {1, ClockHz} : Pass(d)
    \/ \E token \in Tenants : PollBucket(token)

SpecRecovery == InitRecovery /\ [][NextRecovery]_vars

(***************************************************************************)
(* The masking engine alone: one entry in the heap, one configuration of   *)
(* partial rules, and one call, of mask_log_entry on the entry or of       *)
(* _mask_value on a sensitive key and a string.                            *)
(***************************************************************************)
InitMasking ==
    /\ platform = "posix"
    /\ overlap = FALSE
    /\ now = 0
    /\ ticks = 0
    /\ faults = 0
    /\ calls = 0
    /\ nextId = 2
    /\ dir = [t \in Tenants |-> EmptyDir]
    /\ app = [p \in Procs |-> IdleCall]
    /\ acked = {}
    /\ fwd = IdleForwarder
    /\ cycles = 0
    /\ delivered = {}
    /\ removed = {}
    /\ buckets = [k \in Tenants |-> NoBucket]
    /\ responses = {}
    /\ probe = NoProbe
    /\ posts = <<>>
    /\ record = FALSE
    /\ taken = NoCall
    /\ \E tree \in EntryTrees, rules \in PartialRules :
          masking = [NoMasking EXCEPT !.partial_rules = rules,
                                      !.heap = Alloc(<<>>, tree).heap,
                                      !.root = Alloc(<<>>, tree).val]
    /\ force = IdleForwarder
    /\ service = StartedService

SensitiveKeys == {k_password, k_Authorization, k_email, k_user_email}

NextMasking ==
    \/ \E token \in Tenants : MaskLogEntry(token)
    \/ \E key \in SensitiveKeys, value \in Values : MaskValue(key, value)

SpecMasking == InitMasking /\ [][NextMasking]_vars

(***************************************************************************)
(* The forwarder alone: one cycle of the loop over ready segments, with    *)
(* the history of its POSTs kept.  Tenant t1 holds segment_001.ready with  *)
(* one to three frames (three are what overlapping appends leave, C8),     *)
(* each intact or damaged on disk; tenant t2 holds nothing or a ready      *)
(* segment with one intact frame.                                          *)
(***************************************************************************)
FrameKinds == {"ok", "payload", "checksum"}

FrameOf(k, kind) ==
    <<<<k, 1>>, <<k, IF kind = "payload" THEN 4 ELSE 2>>,
      <<k, IF kind = "checksum" THEN 5 ELSE 3>>>>

RECURSIVE FramesOf(_, _)
FramesOf(kinds, k) ==
    IF kinds = <<>> THEN <<>>
    ELSE FrameOf(k, Head(kinds)) \o FramesOf(Tail(kinds), k + 1)

ReadyFile(id, data, entries) ==
    [NewFile(id, 0) EXCEPT !.data = data, !.ok = entries]

ReadySegments ==
    {FramesOf(kinds, 1) : kinds \in UNION {[1..n -> FrameKinds] : n \in 1..3}}

InitForward ==
    /\ platform = "posix"
    /\ overlap = FALSE
    /\ now = 0
    /\ ticks = 0
    /\ faults = 0
    /\ calls = 0
    /\ nextId = 3
    /\ \E data \in ReadySegments, other \in BOOLEAN :
          dir = [t \in Tenants |->
                   IF t = "t1"
                   THEN Put(EmptyDir, Name(1, "ready"),
                            ReadyFile(1, data, [i \in 1..(Len(data) \div 3) |-> i]))
                   ELSE IF other
                   THEN Put(EmptyDir, Name(1, "ready"),
                            ReadyFile(2, FramesOf(<<"ok">>, 4), <<4>>))
                   ELSE EmptyDir]
    /\ app = [p \in Procs |-> IdleCall]
    /\ acked = {}
    /\ fwd = IdleForwarder
    /\ cycles = 0
    /\ delivered = {}
    /\ removed = {}
    /\ buckets = [k \in Tenants |-> NoBucket]
    /\ responses = {}
    /\ probe = NoProbe
    /\ posts = <<>>
    /\ record = TRUE
    /\ taken = NoCall
    /\ masking = NoMasking
    /\ force = IdleForwarder
    /\ service = StartedService

NextForward ==
    \/ FwdCycle("loop")
    \/ \E seg \in fwd.todo : FwdRead("loop", seg)
    \/ FwdFinish("loop")
    \/ \E answer \in Answers : FwdSend("loop", answer)
    \/ FwdWake("loop")

SpecForward == InitForward /\ [][NextForward]_vars

(***************************************************************************)
(* The scheduler: ForwarderService.start, stop and force_forward are       *)
(* called in any order on a new service while the loop runs its cycle.     *)
(* Tenant t1 holds a ready segment with one record, tenant t2 holds        *)
(* nothing or another.                                                     *)
(***************************************************************************)
Cycles == {"loop", "force"}

InitService ==
    /\ platform = "posix"
    /\ overlap = FALSE
    /\ now = 0
    /\ ticks = 0
    /\ faults = 0
    /\ calls = 0
    /\ nextId = 3
    /\ \E other \in BOOLEAN :
          dir = [t \in Tenants |->
                   IF t = "t1"
                   THEN Put(EmptyDir, Name(1, "ready"),
                            ReadyFile(1, FramesOf(<<"ok">>, 1), <<1>>))
                   ELSE IF other
                   THEN Put(EmptyDir, Name(1, "ready"),
                            ReadyFile(2, FramesOf(<<"ok">>, 4), <<4>>))
                   ELSE EmptyDir]
    /\ app = [p \in Procs |-> IdleCall]
    /\ acked = {}
    /\ fwd = IdleForwarder
    /\ cycles = 0
    /\ delivered = {}
    /\ removed = {}
    /\ buckets = [k \in Tenants |-> NoBucket]
    /\ responses = {}
    /\ probe = NoProbe
    /\ posts = <<>>
    /\ record = FALSE
    /\ taken = NoCall
    /\ masking = NoMasking
    /\ force = IdleForwarder
    /\ service = NewService

NextService ==
    \/ ServiceStart
    \/ ServiceStop
    \/ ServiceStopped
    \/ \E w \in Cycles : FwdCycle(w)
    \/ \E w \in Cycles : \E seg \in Cyc(w).todo : FwdRead(w, seg)
    \/ \E w \in Cycles : FwdFinish(w)
    \/ \E w \in Cycles, answer \in {"204", "500", "raise", "none"} : FwdSend(w, answer)
    \/ \E w \in Cycles : FwdWake(w)

SpecService == InitService /\ [][NextService]_vars

(***************************************************************************)
(* Retries.  The service is started; tenant t1 holds a ready segment with  *)
(* one record, tenant t2 holds nothing or another.  The loop runs its      *)
(* cycle and force_forward runs one, one after the other in any order, and *)
(* downstream answers each POST as it likes.  The POSTs and sleeps are     *)
(* recorded.                                                               *)
(***************************************************************************)
InitRetry ==
    /\ platform = "posix"
    /\ overlap = FALSE
    /\ now = 0
    /\ ticks = 0
    /\ faults = 0
    /\ calls = 0
    /\ nextId = 3
    /\ \E other \in BOOLEAN :
          dir = [t \in Tenants |->
                   IF t = "t1"
                   THEN Put(EmptyDir, Name(1, "ready"),
                            ReadyFile(1, FramesOf(<<"ok">>, 1), <<1>>))
                   ELSE IF other
                   THEN Put(EmptyDir, Name(1, "ready"),
                            ReadyFile(2, FramesOf(<<"ok">>, 4), <<4>>))
                   ELSE EmptyDir]
    /\ app = [p \in Procs |-> IdleCall]
    /\ acked = {}
    /\ fwd = IdleForwarder
    /\ cycles = 0
    /\ delivered = {}
    /\ removed = {}
    /\ buckets = [k \in Tenants |-> NoBucket]
    /\ responses = {}
    /\ probe = NoProbe
    /\ posts = <<>>
    /\ record = TRUE
    /\ taken = NoCall
    /\ masking = NoMasking
    /\ force = IdleForwarder
    /\ service = StartedService

NextRetry ==
    \/ \E w \in Cycles : (\A o \in Cycles : Cyc(o).pc = "idle") /\ FwdCycle(w)
    \/ \E w \in Cycles : \E seg \in Cyc(w).todo : FwdRead(w, seg)
    \/ \E w \in Cycles : FwdFinish(w)
    \/ \E w \in Cycles, answer \in {"204", "500", "raise"} : FwdSend(w, answer)
    \/ \E w \in Cycles : FwdWake(w)

SpecRetry == InitRetry /\ [][NextRetry]_vars

(***************************************************************************)
(* Ingest and forwarding together: requests of tenant t1 with entries      *)
(* whose masking fails, and the loop of the started forwarder over the     *)
(* ready segments the WAL holds.                                           *)
(***************************************************************************)
InitPipeline == InitService

NextPipeline ==
    \/ ServiceStart
    \/ /\ Cardinality(responses) < MaxPipelineRequests
       /\ \E n \in 1..MaxBatch, bad \in SUBSET (1..MaxBatch) :
             ingest_logs("t1", n, TRUE, bad)
    \/ FwdCycle("loop")
    \/ \E seg \in fwd.todo : FwdRead("loop", seg)
    \/ FwdFinish("loop")
    \/ \E answer \in {"204", "500"} : FwdSend("loop", answer)

SpecPipeline == InitPipeline /\ [][NextPipeline]_vars


(***************************************************************************)
(* The directories the WAL manager derives from a token.  A path is the    *)
(* list of its components below the working directory; a token is a       *)
(* string of code points ('.' 46, '/' 47, '\' 92, 'a' 97).                  *)
(***************************************************************************)
\* hashlib.sha256(token.encode()).hexdigest()[:8] of the tokens of the
\* model: every string of up to three characters of a . / \, '../../x'
\* and 't1'
Sha256Prefix ==
    <<>> :> <<101, 51, 98, 48, 99, 52, 52, 50>> @@
    <<97>> :> <<99, 97, 57, 55, 56, 49, 49, 50>> @@
    <<46>> :> <<99, 100, 98, 52, 101, 101, 50, 97>> @@
    <<47>> :> <<56, 97, 53, 101, 100, 97, 98, 50>> @@
    <<92>> :> <<97, 57, 50, 53, 51, 100, 99, 56>> @@
    <<97, 97>> :> <<57, 54, 49, 98, 54, 100, 100, 51>> @@
    <<97, 46>> :> <<53, 97, 98, 54, 52, 48, 102, 97>> @@
    <<97, 47>> :> <<98, 51, 100, 100, 97, 53, 98, 54>> @@
    <<97, 92>> :> <<53, 54, 99, 49, 53, 52, 50, 51>> @@
    <<46, 97>> :> <<51, 54, 55, 57, 55, 99, 51, 97>> @@
    <<46, 46>> :> <<53, 101, 99, 49, 102, 55, 101, 55>> @@
    <<46, 47>> :> <<99, 49, 52, 99, 101, 99, 101, 99>> @@
    <<46, 92>> :> <<100, 48, 57, 50, 98, 101, 97, 52>> @@
    <<47, 97>> :> <<54, 97, 53, 48, 100, 99, 56, 53>> @@
    <<47, 46>> :> <<97, 53, 101, 50, 54, 48, 101, 53>> @@
    <<47, 47>> :> <<97, 50, 99, 50, 51, 51, 57, 54>> @@
    <<47, 92>> :> <<99, 49, 55, 55, 51, 98, 99, 50>> @@
    <<92, 97>> :> <<50, 98, 97, 99, 52, 97, 53, 53>> @@
    <<92, 46>> :> <<101, 51, 100, 99, 48, 57, 49, 101>> @@
    <<92, 47>> :> <<55, 97, 48, 54, 51, 101, 52, 99>> @@
    <<92, 92>> :> <<98, 49, 49, 98, 52, 99, 97, 49>> @@
    <<97, 97, 97>> :> <<57, 56, 51, 52, 56, 55, 54, 100>> @@
    <<97, 97, 46>> :> <<101, 57, 53, 99, 49, 99, 48, 55>> @@
    <<97, 97, 47>> :> <<54, 100, 99, 99, 97, 101, 57, 98>> @@
    <<97, 97, 92>> :> <<49, 54, 102, 99, 49, 99, 50, 48>> @@
    <<97, 46, 97>> :> <<97, 56, 102, 50, 52, 55, 50, 53>> @@
    <<97, 46, 46>> :> <<97, 101, 100, 50, 101, 98, 51, 102>> @@
    <<97, 46, 47>> :> <<50, 99, 102, 53, 52, 55, 56, 97>> @@
    <<97, 46, 92>> :> <<50, 57, 53, 50, 54, 99, 53, 55>> @@
    <<97, 47, 97>> :> <<48, 49, 54, 52, 98, 56, 50, 53>> @@
    <<97, 47, 46>> :> <<49, 48, 55, 49, 54, 51, 56, 100>> @@
    <<97, 47, 47>> :> <<101, 54, 98, 57, 51, 49, 99, 51>> @@
    <<97, 47, 92>> :> <<98, 52, 55, 56, 98, 100, 100, 57>> @@
    <<97, 92, 97>> :> <<52, 55, 99, 55, 56, 57, 51, 100>> @@
    <<97, 92, 46>> :> <<102, 98, 53, 101, 100, 48, 56, 97>> @@
    <<97, 92, 47>> :> <<51, 57, 57, 51, 97, 56, 50, 101>> @@
    <<97, 92, 92>> :> <<53, 48, 57, 49, 99, 53, 100, 102>> @@
    <<46, 97, 97>> :> <<98, 55, 101, 51, 100, 48, 55, 50>> @@
    <<46, 97, 46>> :> <<56, 48, 49, 52, 51, 50, 57, 53>> @@
    <<46, 97, 47>> :> <<56, 52, 98, 50, 56, 99, 99, 97>> @@
    <<46, 97, 92>> :> <<57, 50, 49, 98, 53, 53, 48, 102>> @@
    <<46, 46, 97>> :> <<102, 55, 54, 97, 52, 100, 101, 102>> @@
    <<46, 46, 46>> :> <<97, 98, 53, 100, 102, 54, 50, 53>> @@
    <<46, 46, 47>> :> <<102, 97, 48, 56, 52, 57, 57, 101>> @@
    <<46, 46, 92>> :> <<100, 98, 55, 97, 99, 53, 51, 49>> @@
    <<46, 47, 97>> :> <<99, 98, 55, 56, 54, 97, 57, 97>> @@
    <<46, 47, 46>> :> <<100, 53, 55, 97, 51, 53, 100, 100>> @@
    <<46, 47, 47>> :> <<49, 98, 101, 97, 48, 54, 53, 55>> @@
    <<46, 47, 92>> :> <<54, 57, 55, 51, 48, 51, 50, 52>> @@
    <<46, 92, 97>> :> <<51, 52, 50, 97, 57, 55, 50, 98>> @@
    <<46, 92, 46>> :> <<55, 100, 48, 57, 101, 54, 48, 55>> @@
    <<46, 92, 47>> :> <<53, 50, 55, 56, 54, 56, 101, 97>> @@
    <<46, 92, 92>> :> <<55, 57, 56, 101, 51, 99, 57, 50>> @@
    <<47, 97, 97>> :> <<51, 101, 97, 101, 57, 100, 57, 51>> @@
    <<47, 97, 46>> :> <<56, 54, 53, 102, 53, 99, 48, 57>> @@
    <<47, 97, 47>> :> <<56, 50, 57, 48, 52, 49, 50, 102>> @@
    <<47, 97, 92>> :> <<97, 53, 99, 48, 97, 100, 102, 98>> @@
    <<47, 46, 97>> :> <<55, 98, 98, 48, 49, 56, 98, 49>> @@
    <<47, 46, 46>> :> <<51, 97, 54, 97, 101, 98, 99, 48>> @@
    <<47, 46, 47>> :> <<56, 57, 55, 55, 55, 57, 55, 51>> @@
    <<47, 46, 92>> :> <<100, 97, 101, 56, 51, 98, 48, 54>> @@
    <<47, 47, 97>> :> <<53, 99, 56, 97, 50, 51, 54, 53>> @@
    <<47, 47, 46>> :> <<100, 53, 53, 49, 52, 48, 100, 57>> @@
    <<47, 47, 47>> :> <<55, 51, 50, 99, 52, 101, 57, 55>> @@
    <<47, 47, 92>> :> <<49, 54, 51, 51, 53, 51, 101, 51>> @@
    <<47, 92, 97>> :> <<48, 55, 98, 51, 97, 57, 57, 99>> @@
    <<47, 92, 46>> :> <<53, 52, 50, 56, 98, 98, 52, 98>> @@
    <<47, 92, 47>> :> <<101, 99, 48, 49, 50, 102, 54, 98>> @@
    <<47, 92, 92>> :> <<98, 100, 102, 50, 56, 51, 97, 55>> @@
    <<92, 97, 97>> :> <<51, 97, 49, 54, 57, 97, 100, 53>> @@
    <<92, 97, 46>> :> <<52, 50, 99, 56, 49, 53, 100, 98>> @@
    <<92, 97, 47>> :> <<50, 99, 54, 100, 102, 98, 98, 101>> @@
    <<92, 97, 92>> :> <<101, 49, 56, 53, 101, 56, 49, 52>> @@
    <<92, 46, 97>> :> <<57, 56, 97, 99, 102, 100, 51, 48>> @@
    <<92, 46, 46>> :> <<101, 50, 101, 53, 48, 97, 101, 51>> @@
    <<92, 46, 47>> :> <<102, 55, 50, 99, 56, 99, 97, 50>> @@
    <<92, 46, 92>> :> <<101, 57, 100, 97, 52, 102, 49, 48>> @@
    <<92, 47, 97>> :> <<51, 97, 54, 102, 57, 99, 50, 55>> @@
    <<92, 47, 46>> :> <<99, 56, 101, 100, 51, 51, 97, 100>> @@
    <<92, 47, 47>> :> <<52, 55, 101, 50, 50, 53, 52, 97>> @@
    <<92, 47, 92>> :> <<100, 54, 57, 48, 52, 50, 98, 101>> @@
    <<92, 92, 97>> :> <<57, 97, 100, 53, 53, 48, 101, 53>> @@
    <<92, 92, 46>> :> <<55, 57, 53, 57, 99, 53, 50, 98>> @@
    <<92, 92, 47>> :> <<55, 56, 50, 56, 56, 97, 101, 101>> @@
    <<92, 92, 92>> :> <<99, 99, 99, 55, 56, 101, 48, 53>> @@
    <<46, 46, 47, 46, 46, 47, 120>> :> <<57, 99, 100, 102, 54, 97, 53, 48>> @@
    <<116, 49>> :> <<54, 50, 56, 98, 52, 57, 100, 57>>

Tokens == DOMAIN Sha256Prefix

\* settings.wal_root_path: ./wal
wal_root == <<<<119, 97, 108>>>>

\* re.sub(r'[^a-zA-Z0-9_-]', '', token)
SafeChar(c) ==
    \/ c >= 97 /\ c <= 122
    \/ c >= 65 /\ c <= 90
    \/ c >= 48 /\ c <= 57
    \/ c = 95 \/ c = 45
RECURSIVE StripUnsafe(_)
StripUnsafe(token) ==
    IF token = <<>> THEN <<>>
    ELSE (IF SafeChar(Head(token)) THEN <<Head(token)>> ELSE <<>>) \o StripUnsafe(Tail(token))

\* WALManager._sanitize_token(token)
_sanitize_token(token) ==
    SubSeq(StripUnsafe(token), 1, Min(20, Len(StripUnsafe(token)))) \o <<95>> \o Sha256Prefix[token]

\* the components of a string as pathlib parses it: '/' separates, on
\* Windows '\' too; empty components and '.' are dropped, '..' is kept
IsSep(c) == c = 47 \/ (platform = "windows" /\ c = 92)
RECURSIVE Parts(_, _)
Parts(str, cur) ==
    LET done == IF cur = <<>> \/ cur = <<46>> THEN <<>> ELSE <<cur>>
    IN  IF str = <<>> THEN done
        ELSE IF IsSep(Head(str)) THEN done \o Parts(Tail(str), <<>>)
        ELSE Parts(Tail(str), Append(cur, Head(str)))

\* path / str: a string that starts with a separator is rooted and
\* replaces the path (its first component is the separator itself)
Join(path, str) ==
    IF str # <<>> /\ IsSep(str[1]) THEN <<<<47>>>> \o Parts(str, <<>>)
    ELSE path \o Parts(str, <<>>)

\* WALManager._ensure_token_directory(token)
_ensure_token_directory(token) == Join(wal_root, _sanitize_token(token))

\* the directories get_ready_segments(token) scans: wal_root / token, and
\* for an empty token every directory of wal_root (existing is the set of
\* the directories that exist)
ready_segment_dirs(token, existing) ==
    IF token # <<>> THEN {Join(wal_root, token)} ELSE existing

\* the directories the operations on a token use: append, get_token_stats
\* (its glob, and get_ready_segments for the disk usage), and
\* get_ready_segments
DerivedDirs(token) ==
    [append |-> _ensure_token_directory(token),
     stats |-> _ensure_token_directory(token),
     stats_usage |-> ready_segment_dirs(token, {_ensure_token_directory(token)}),
     ready |-> ready_segment_dirs(token, {_ensure_token_directory(token)})]

\* append, get_token_stats and get_ready_segments called with a token;
\* probe keeps the directories they used
DeriveDirs(token) ==
    /\ probe' = [decided |-> TRUE, token |-> token, dirs |-> DerivedDirs(token)]
    /\ UNCHANGED <<svcVars, histVars, apiVars, platform, overlap, now, ticks, walVars, fwdVars>>

(***************************************************************************)
(* delete_segment alone, called for names that exist and names that do     *)
(* not, on directories that hold ready segments and an active one.         *)
(***************************************************************************)
DeleteDirs ==
    {EmptyDir,
     Put(EmptyDir, Name(1, "ready"), ReadyFile(1, FramesOf(<<"ok">>, 1), <<1>>)),
     Put(Put(EmptyDir, Name(1, "ready"), ReadyFile(1, FramesOf(<<"ok">>, 1), <<1>>)),
         Name(2, "wal"), NewFile(2, 0)),
     Put(Put(EmptyDir, Name(1, "ready"), ReadyFile(1, FramesOf(<<"ok">>, 1), <<1>>)),
         Name(2, "ready"), ReadyFile(2, FramesOf(<<"ok">>, 2), <<2>>))}

DeleteNames == {Name(1, "ready"), Name(2, "ready"), Name(2, "wal"), Name(3, "ready")}

InitDelete ==
    /\ platform \in Platforms
    /\ overlap = FALSE
    /\ now = 0
    /\ ticks = 0
    /\ faults = 0
    /\ calls = 0
    /\ nextId = 3
    /\ dir \in [Tenants -> DeleteDirs]
    /\ app = [p \in Procs |-> IdleCall]
    /\ acked = {}
    /\ fwd = IdleForwarder
    /\ cycles = 0
    /\ delivered = {}
    /\ removed = {}
    /\ buckets = [k \in Tenants |-> NoBucket]
    /\ responses = {}
    /\ probe = NoProbe
    /\ posts = <<>>
    /\ record = FALSE
    /\ taken = NoCall
    /\ masking = NoMasking
    /\ force = IdleForwarder
    /\ service = StartedService

\* wal_manager.delete_segment(path) for a segment path of tenant t; probe
\* keeps the call: value says whether the file existed
DeleteSegment(t, nm) ==
    /\ dir' = [dir EXCEPT ![t] = delete_segment(dir[t], nm)]
    /\ probe' = [decided |-> TRUE, tenant |-> t, path |-> nm, value |-> nm \in DOMAIN dir[t]]
    /\ UNCHANGED <<svcVars, histVars, apiVars, platform, overlap, now, ticks,
                   faults, calls, nextId, app, acked, fwdVars>>

NextDelete == \E t \in Tenants, nm \in DeleteNames : DeleteSegment(t, nm)

SpecDelete == InitDelete /\ [][NextDelete]_vars

(***************************************************************************)
(* The directories of a token alone: the three operations called with any  *)
(* token of the model, on both platforms.                                  *)
(***************************************************************************)
InitPaths == InitDelete /\ dir = [t \in Tenants |-> EmptyDir]

NextPaths == \E token \in Tokens : DeriveDirs(token)

SpecPaths == InitPaths /\ [][NextPaths]_vars

(***************************************************************************)
(* Ingest of one body, sent up to MaxRequests times: the entries of the    *)
(* body are chosen at the start and kept in probe.                         *)
(***************************************************************************)
InitValidation ==
    /\ platform = "posix"
    /\ overlap = FALSE
    /\ now = 0
    /\ ticks = 0
    /\ faults = 0
    /\ calls = 0
    /\ nextId = 2
    /\ dir = [t \in Tenants |-> EmptyDir]
    /\ app = [p \in Procs |-> IdleCall]
    /\ acked = {}
    /\ fwd = IdleForwarder
    /\ cycles = 0
    /\ delivered = {}
    /\ removed = {}
    /\ buckets = [k \in Tenants |-> NoBucket]
    /\ responses = {}
    /\ \E body \in Bodies : probe = [decided |-> TRUE, body |-> body]
    /\ posts = <<>>
    /\ record = FALSE
    /\ taken = NoCall
    /\ masking = NoMasking
    /\ force = IdleForwarder
    /\ service = StartedService

NextValidation == IngestBody

SpecValidation == InitValidation /\ [][NextValidation]_vars

(***************************************************************************)
(* The WAL and the forwarder with the scheduling of the event loop: the    *)
(* clock advances, the loop of _run_forwarder_loop starts its next cycle   *)
(* after every sleep, a cycle that runs goes on to its end and an append   *)
(* call that was made runs on after each of its awaits.  Nothing obliges a *)
(* tenant to make an append call, and nothing obliges downstream to answer *)
(* in a particular way.                                                    *)
(***************************************************************************)
InitIdle == Init /\ ~overlap /\ platform = "posix"

NextIdle ==
    \/ \E n \in 1..MaxBatch : AppendCall("a1", "t1", n, FALSE)
    \/ AppendOpen("a1")
    \/ AppendWrite("a1")
    \/ \E s \in TickSteps : Tick(s)
    \/ FwdCycle("loop")
    \/ \E seg \in fwd.todo : FwdRead("loop", seg)
    \/ FwdFinish("loop")
    \/ \E answer \in {"204", "500"} : FwdSend("loop", answer)

Scheduling ==
    /\ WF_vars(\E s \in TickSteps : Tick(s))
    /\ WF_vars(FwdCycle("loop"))
    /\ WF_vars(\E seg \in fwd.todo : FwdRead("loop", seg))
    /\ WF_vars(FwdFinish("loop"))
    /\ WF_vars(\E answer \in {"204", "500"} : FwdSend("loop", answer))
    /\ WF_vars(AppendOpen("a1"))
    /\ WF_vars(AppendWrite("a1"))

SpecIdle == InitIdle /\ [][NextIdle]_vars /\ Scheduling

(***************************************************************************)
(* The writer after its first rotation.  Tenant t1 holds what the first    *)
(* rotation and the append call that made it leave behind: segment_001 as  *)
(* a ready segment and segment_002.wal with the record of that call; the   *)
(* forwarder has or has not sent segment_001 yet.  Append calls follow one *)
(* another, the clock advances and the forwarder runs its cycles.          *)
(***************************************************************************)
\* the entries written before: ids after those of the append calls
FirstRecord == MaxAppends * MaxBatch + 1

WriterDirs ==
    LET active == [NewFile(2, 0) EXCEPT !.data = FramesOf(<<"ok">>, FirstRecord),
                                        !.ok = <<FirstRecord>>]
        seg1 == ReadyFile(1, FramesOf(<<"ok">>, FirstRecord + 1), <<FirstRecord + 1>>)
    IN  {Put(EmptyDir, Name(2, "wal"), active),
         Put(Put(EmptyDir, Name(2, "wal"), active), Name(1, "ready"), seg1)}

InitWriter ==
    /\ platform \in Platforms
    /\ overlap = FALSE
    /\ now = 0
    /\ ticks = 0
    /\ faults = 0
    /\ calls = 0
    /\ nextId = 3
    /\ \E d \in WriterDirs : dir = [t \in Tenants |-> IF t = "t1" THEN d ELSE EmptyDir]
    /\ app = [p \in Procs |-> IdleCall]
    /\ acked = {}
    /\ fwd = IdleForwarder
    /\ cycles = 0
    /\ delivered = {}
    /\ removed = {}
    /\ buckets = [k \in Tenants |-> NoBucket]
    /\ responses = {}
    /\ probe = NoProbe
    /\ posts = <<>>
    /\ record = FALSE
    /\ taken = NoCall
    /\ masking = NoMasking
    /\ force = IdleForwarder
    /\ service = StartedService

NextWriter == NextIdle

SpecWriter == InitWriter /\ [][NextWriter]_vars

(***************************************************************************)
(* The rotation decision alone.  Tenant t1 holds one active segment whose  *)
(* size, age and time since the last write are drawn around the thresholds *)
(* of the rules; _should_rotate_segment is applied to it.                  *)
(***************************************************************************)
\* seconds around rotation_time_active, idle_threshold, rotation_time_idle
\* and force_rotation
Ages == {0, 299, 300, 599, 600, 3599, 3600, 21599, 21600}
LatestAge == 21600

\* segment contents of 0, 20, 24, 44 and 48 bytes
SegmentData ==
    {<<>>,
     <<<<1, 1>>, <<1, 2>>>>,
     <<<<1, 1>>, <<1, 2>>, <<1, 3>>>>,
     <<<<1, 1>>, <<1, 2>>, <<1, 3>>, <<2, 1>>, <<2, 2>>>>,
     <<<<1, 1>>, <<1, 2>>, <<1, 3>>, <<2, 1>>, <<2, 2>>, <<2, 3>>>>}

InitRotation ==
    /\ platform \in Platforms
    /\ overlap = FALSE
    /\ now = LatestAge
    /\ ticks = 0
    /\ faults = 0
    /\ calls = 0
    /\ nextId = 2
    /\ \E data \in SegmentData, age \in Ages, idle \in Ages :
          /\ idle <= age
          /\ dir = [t \in Tenants |->
                      IF t = "t1"
                      THEN Put(EmptyDir, Name(1, "wal"),
                               [NewFile(1, LatestAge - age) EXCEPT
                                   !.data = data, !.mtime = LatestAge - idle])
                      ELSE EmptyDir]
    /\ app = [p \in Procs |-> IdleCall]
    /\ acked = {}
    /\ fwd = IdleForwarder
    /\ cycles = 0
    /\ delivered = {}
    /\ removed = {}
    /\ buckets = [k \in Tenants |-> NoBucket]
    /\ responses = {}
    /\ probe = NoProbe
    /\ posts = <<>>
    /\ record = FALSE
    /\ taken = NoCall
    /\ masking = NoMasking
    /\ force = IdleForwarder
    /\ service = StartedService

NextRotation == \E t \in Tenants : \E nm \in GlobWal(dir[t]) : ShouldRotate(t, nm)

SpecRotation == InitRotation /\ [][NextRotation]_vars

(***************************************************************************)
(* Properties.                                                             *)
(***************************************************************************)
FsErrors == {"FileNotFoundError", "FileExistsError", "PermissionError"}
Started(p) == app[p].pc # "idle"
MaxOf(S) == CHOOSE n \in S : \A m \in S : m <= n

\* C1: in every reachable state every tenant directory holds at most one
\* segment_NNN.wal file, also between the steps of a rotation and while
\* append calls for the same tenant overlap.
C1_OneActiveSegment ==
    \A t \in Tenants : Cardinality(GlobWal(dir[t])) <= 1

\* C2: sequence numbers within a tenant directory are strictly increasing
\* and never duplicated: no two files (.wal or .ready) carry the same
\* number, and every newly created segment has a number greater than that
\* of every segment that was there before it.  Stated for the behaviours in
\* which append calls do not overlap.
C2_NoDuplicateNumber ==
    ~overlap =>
        \A t \in Tenants : \A a, b \in DOMAIN dir[t] : a.num = b.num => a = b
C2_NewAboveOld ==
    ~overlap =>
        \A t \in Tenants : \A nm \in DOMAIN dir'[t] :
            dir'[t][nm].id >= nextId => \A o \in DOMAIN dir[t] : o.num < nm.num
C2_SequenceNumbers == [](C2_NoDuplicateNumber) /\ [][C2_NewAboveOld]_vars

\* C3: round trip of append and scan: when append returns successfully,
\* the reader scan of the segment from offset 0 yields, in the order
\* written, every record of this call and of every earlier successful
\* append to that segment (CRC matching, payload equal to the entry).
\* Stated for the behaviours in which append calls do not overlap.
C3_RoundTrip ==
    ~overlap => \A p \in Procs : app[p].pc = "done" => app[p].scan_ok

\* C4: at-least-once delivery, the part of it that a finite run decides: a
\* record of a successful append that no POST answered 204 has carried is
\* still to be delivered, that is, the reader scan of a file of the tenant
\* yields it or the forwarder holds it for a POST.  Stated for the states
\* in which no append call is in progress, of the behaviours in which append
\* calls do not overlap.
ScanOf(t, nm) == _read_segment_entries(Bytes(dir[t][nm].data)).entries
Deliverable(t, e) ==
    \/ \E nm \in DOMAIN dir[t] : e \in Range(ScanOf(t, nm))
    \/ fwd.pc \in {"send", "sleep"} /\ fwd.tenant = t /\ e \in Range(fwd.entries)
C4_AtLeastOnce ==
    (~overlap /\ \A p \in Procs : app[p].pc \in Free) =>
        \A a \in acked : a[2] \in delivered \/ Deliverable(a[1], a[2])

\* C5: the forwarder deletes a ready segment only after a POST carrying
\* that segment's records was answered with success in the same cycle:
\* what the POST carried is what the deleted file held.
C5_DeleteOnlyForwarded ==
    \A r \in removed : r.sent = r.had

\* C6: an accepted record is durable: when the ingest endpoint answers 202
\* for a batch, wal.append for that tenant has completed successfully for
\* every entry of the batch, so each is a complete frame in the tenant's
\* WAL before the acknowledgement.
C6_AcceptedIsDurable ==
    \A r \in responses :
        r.status = 202 =>
            \A e \in Range(r.entries) :
                /\ <<r.token, e>> \in acked
                /\ \E nm \in DOMAIN dir[r.token] : e \in Range(ScanOf(r.token, nm))

\* C7: the first append for a tenant whose directory holds no
\* segment_*.wal file creates segment_001.wal, writes all records of the
\* batch into it and returns successfully (unless a write fails).
C7_FirstAppend ==
    \A p \in Procs :
        (Started(p) /\ app[p].preWal = {}) =>
            /\ app[p].err \notin FsErrors
            /\ app[p].err = "" => app[p].target = Name(1, "wal")
            /\ app[p].pc = "done" =>
                  \A i \in 1..Len(app[p].entries) :
                      \E nm \in DOMAIN dir[app[p].t] :
                          /\ nm.num = 1
                          /\ app[p].entries[i] \in Range(ScanOf(app[p].t, nm))

\* C8: size boundary: when the active segment segment_NNN.wal has at least
\* segment_max_bytes at the start of an append, the append first rotates
\* it to segment_NNN.ready, then writes the batch into the new
\* segment_(NNN+1).wal, and succeeds (unless the disk fails).
C8_SizeBoundary ==
    \A p \in Procs :
        (Started(p) /\ app[p].preFull) =>
            /\ app[p].err \notin FsErrors
            /\ app[p].rot = Name(MaxOf(app[p].preWal), "wal")
            /\ app[p].err = "" => app[p].target = Name(MaxOf(app[p].preWal) + 1, "wal")

\* C9: rotation is crash-safe: when the creation of the new segment failed
\* after the rename (the directory holds ready segments and no active
\* one), the next append for the tenant creates the new active segment,
\* with a number above NNN, and succeeds.
C9_CrashSafeRotation ==
    \A p \in Procs :
        (Started(p) /\ app[p].preWal = {} /\ app[p].preReady # {}) =>
            /\ app[p].err \notin FsErrors
            /\ app[p].err = "" => app[p].target.num > MaxOf(app[p].preReady)

\* C10: the rotation decision is true exactly when one of R1-R4 holds, on
\* the segment's size, its age since creation and the time since its last
\* write; it is false for a recent, small segment.
R1(size) == size >= segment_max_bytes
R2(size, age, since_write) ==
    /\ since_write < idle_threshold_minutes * 60
    /\ age >= rotation_time_active_minutes * 60
    /\ size >= min_rotation_bytes
R3(age, since_write) ==
    /\ since_write >= idle_threshold_minutes * 60
    /\ age >= rotation_time_idle_hours * 3600
R4(age) == age >= force_rotation_hours * 3600
C10_RotationDecision ==
    probe.decided =>
        LET f == dir[probe.tenant][probe.path]
            size == Size(f.data)
            age == now - f.birth
            since_write == now - f.mtime
        IN  probe.value <=> (R1(size) \/ R2(size, age, since_write)
                                \/ R3(age, since_write) \/ R4(age))

\* C11: per-tenant disk usage is bounded by the quota: an append that would
\* make the bytes stored in the tenant's directory exceed
\* token_wal_quota_bytes fails and writes no byte, so in every reachable
\* state the stored bytes are at most token_wal_quota_bytes.  Stated for the
\* behaviours in which append calls do not overlap.
RECURSIVE StoredBytes(_)
StoredBytes(d) ==
    IF DOMAIN d = {} THEN 0
    ELSE LET nm == CHOOSE x \in DOMAIN d : TRUE
         IN  Size(d[nm].data) + StoredBytes(Del(d, nm))
C11_QuotaBound ==
    ~overlap => \A t \in Tenants : StoredBytes(dir[t]) <= token_wal_quota_bytes

\* C12: the writer writes whole frames or nothing: after append has
\* returned, successfully or with an error, no segment ends in a partial
\* frame.  Stated for the states in which no append call is in progress, of
\* the behaviours in which append calls do not overlap.
RECURSIVE WholeFrames(_)
WholeFrames(writes) ==
    IF writes = <<>> THEN TRUE
    ELSE /\ Len(writes) >= 3
         /\ writes[1][2] = 1
         /\ writes[2] = <<writes[1][1], 2>>
         /\ writes[3] = <<writes[1][1], 3>>
         /\ WholeFrames(SubSeq(writes, 4, Len(writes)))
C12_WholeFrames ==
    (~overlap /\ \A p \in Procs : app[p].pc \in Free) =>
        \A t \in Tenants : \A nm \in DOMAIN dir[t] : WholeFrames(dir[t][nm].data)

\* C13: appends for one tenant are serialized: the three parts of each
\* frame are contiguous in the segment, and all records of the call that
\* completes first precede the records of the other call.  The formula is
\* the second half, for segments whose frames are contiguous: the records
\* of the calls that returned lie in the segment in the order the calls
\* returned.
Contiguous(writes) ==
    \A i \in 1..Len(writes) :
        writes[i][2] # 3 =>
            \/ i = Len(writes)
            \/ writes[i + 1] = <<writes[i][1], writes[i][2] + 1>>
RECURSIVE RecordsOf(_, _)
\* the records of the set S in the order of their frames in the segment
RecordsOf(writes, S) ==
    IF writes = <<>> THEN <<>>
    ELSE IF Head(writes)[2] = 1 /\ Head(writes)[1] \in S
    THEN <<Head(writes)[1]>> \o RecordsOf(Tail(writes), S)
    ELSE RecordsOf(Tail(writes), S)
C13_Serialized ==
    \A t \in Tenants : \A nm \in DOMAIN dir[t] :
        Contiguous(dir[t][nm].data) =>
            RecordsOf(dir[t][nm].data, Range(dir[t][nm].ok)) = dir[t][nm].ok

\* C14: a ready segment is immutable: once a file is named
\* segment_NNN.ready its bytes never change, and no append writes to it or
\* re-creates segment_NNN.wal next to it.
C14_Step ==
    \A t \in Tenants : \A nm \in GlobReady(dir[t]) :
        /\ nm \in DOMAIN dir'[t] => dir'[t][nm].data = dir[t][nm].data
        /\ with_suffix(nm, "wal") \notin DOMAIN dir[t]
              => with_suffix(nm, "wal") \notin DOMAIN dir'[t]
C14_ReadyImmutable == [][C14_Step]_vars
(***************************************************************************)
(* The forwarder's retries, on the history of one cycle.                   *)
(***************************************************************************)
IsPost(i) == posts[i].kind = "post"
SameSegment(i, j) == posts[i].seg = posts[j].seg

\* C15: a push answered with a 4xx status other than 429 is fatal for the
\* segment: no further POST is made for it in the cycle, and it is not
\* deleted.
C15_FatalClientError ==
    \A i \in 1..Len(posts) : \A j \in 1..Len(posts) :
        (IsPost(i) /\ posts[i].answer = "400" /\ i < j /\ SameSegment(i, j))
            => posts[j].kind \notin {"post", "delete"}

\* C16: every failed attempt i (network error, 429, 5xx) is followed by a
\* sleep: of backoff_seconds[min(i, len-1)] when another attempt follows, of
\* backoff_park_seconds when it was the last.
C16_BackoffBeforeRetry ==
    \A i \in 1..Len(posts) :
        (IsPost(i) /\ posts[i].answer \in {"raise", "429", "500"}) =>
            /\ i < Len(posts)
            /\ posts[i + 1].kind = "sleep"
            /\ SameSegment(i, i + 1)
            /\ posts[i + 1].seconds =
                  IF posts[i].attempt < max_retries
                  THEN backoff_seconds[1 + (IF posts[i].attempt < Len(backoff_seconds) - 1
                                            THEN posts[i].attempt
                                            ELSE Len(backoff_seconds) - 1)]
                  ELSE backoff_park_seconds

\* C17: a push answered with a 2xx status is a success: the segment is
\* deleted at once and no further attempt is made for it.
C17_SuccessOn2xx ==
    \A i \in 1..Len(posts) :
        (IsPost(i) /\ posts[i].answer \in {"200", "204"}) =>
            /\ i < Len(posts)
            /\ posts[i + 1].kind = "delete"
            /\ SameSegment(i, i + 1)
            /\ \A j \in (i + 2)..Len(posts) : ~SameSegment(i, j)

\* the entries of the intact frames of a list of writes, in order
RECURSIVE ValidRecords(_)
ValidRecords(writes) ==
    IF Len(writes) < 3 THEN <<>>
    ELSE (IF writes[2][2] = 2 /\ writes[3][2] = 3 THEN <<writes[1][1]>> ELSE <<>>)
         \o ValidRecords(SubSeq(writes, 4, Len(writes)))

\* C18: a record whose stored CRC32 does not match its payload is skipped
\* and the scan goes on: what a cycle holds and POSTs for a segment is the
\* list of its intact records in order, and a segment is deleted only right
\* after a POST of these records that was answered 204.
C18_SkipCorrupted ==
    /\ fwd.pc \in {"send", "sleep"} =>
          fwd.entries = ValidRecords(dir[fwd.tenant][fwd.path].data)
    /\ \A i \in 1..Len(posts) :
          /\ IsPost(i) => /\ posts[i].entries = ValidRecords(posts[i].data)
                          /\ posts[i].entries # <<>>
          /\ posts[i].kind = "delete" =>
                /\ i > 1
                /\ IsPost(i - 1)
                /\ SameSegment(i - 1, i)
                /\ posts[i - 1].answer = "204"

\* a segment with an intact record before and after a damaged one was
\* POSTed without the damaged one and deleted
C18_Witness ==
    \E i \in 1..Len(posts) :
        /\ posts[i].kind = "delete"
        /\ Len(posts[i].data) = 9
        /\ posts[i].data[5][2] = 4
        /\ posts[i].entries = <<1, 3>>
(***************************************************************************)
(* The scheduler.                                                          *)
(***************************************************************************)
InFlight(c) == c.pc \in {"send", "sleep"}

\* C19: at most one forwarder cycle is active at a time: the cycle of the
\* background loop and the cycle of a force flush never hold the same ready
\* segment at once.
C19_OneCycleAtATime ==
    ~(/\ InFlight(fwd)
      /\ InFlight(force)
      /\ fwd.tenant = force.tenant
      /\ fwd.path = force.path)

\* C20: ForwarderService.start is idempotent: after any number of calls of
\* start and no stop there is exactly one loop task and one open session, as
\* after a single start.
C20_StartIdempotent ==
    (service.starts >= 1 /\ service.stops = 0) =>
        /\ service._running
        /\ service.forwarder
        /\ service.tasks = 1
        /\ service.fwd_running
        /\ service.session
        /\ service.sessions = 1

\* start was called three times and stop never
C20_Witness == service.starts >= 3 /\ service.stops = 0 /\ service.tasks = 1
\* C21: stop does not interrupt a segment in progress: a step of stop taken
\* while the loop's cycle has a segment in flight leaves the cycle as it is
\* (it finishes the segment before it exits).
C21_Step ==
    (InFlight(fwd) /\ service'.stops > service.stops) => fwd' = fwd
C21_StopFinishesSegment == [][C21_Step]_vars
\* C22: a force flush issued while the forwarder is running returns the
\* counts of its cycle whatever the outcome downstream; an error is reported
\* only when the forwarder is not running.
C22_FlushReturnsCounts ==
    service.stops = 0 =>
        \A r \in service.flushes : r.status = 200 /\ Len(r.counts) = 2

\* the tokens of the last call after its refill step, from the history
Refilled == Min(rate_limit_burst, taken.before + taken.elapsed * rate_limit_rps)

\* C23: a consume(k) that returns true leaves tokens at the value after that
\* call's refill step minus exactly k; one that returns false subtracts
\* nothing and leaves tokens at the value after the refill step.
C23_ConsumeExact ==
    taken.n > 0 =>
        /\ taken.ok => taken.after = Refilled - taken.k
        /\ ~taken.ok => taken.after = Refilled
C23_Witness ==
    /\ taken.n > 0 /\ taken.ok /\ taken.k = 2 /\ taken.elapsed > 0
    /\ taken.before < Refilled /\ taken.after = Refilled - 2
C23_WitnessRefused ==
    taken.n > 0 /\ ~taken.ok /\ taken.k > Refilled /\ Refilled > 0

C24_WitnessRefill ==
    taken.zeros >= 2 /\ taken.t > taken.zero_at /\ taken.after > taken.zero_from

\* C25: from a full bucket of capacity C with no refill, N calls of
\* consume(1) return true exactly min(N, C) times and leave max(0, C - N)
\* tokens; each call is one step under the bucket's lock.
C25_ExactlyCapacityAdmitted ==
    \A x \in Tenants :
        LET l == taken.ledger[x]
        IN  (l.asked > 0 /\ l.pure) =>
                /\ l.admitted = Min(l.asked, rate_limit_burst)
                /\ buckets[x].tokens = Max(0, rate_limit_burst - l.asked)
C25_Witness ==
    \E x \in Tenants :
        LET l == taken.ledger[x]
        IN  /\ l.pure /\ l.asked = rate_limit_burst + 1
            /\ l.admitted = rate_limit_burst
            /\ taken.token = x /\ ~taken.ok

\* C26: a rate-limit check for one token leaves the bucket of every other
\* token as it was, a bucket once created stays, and the answer depends on
\* the token's own bucket only: a token with no bucket yet, or with a token
\* left in its bucket, is admitted whatever the other buckets hold.
C26_Step ==
    \A x \in Tenants :
        (taken'.n > taken.n /\ taken'.token = x) =>
            /\ \A y \in Tenants \ {x} : buckets'[y] = buckets[y]
            /\ buckets'[x].made
            /\ taken'.made = buckets[x].made
            /\ (taken'.k = 1 /\ (~buckets[x].made \/ buckets[x].tokens >= 1)) => taken'.ok
            /\ (taken'.k = 1 /\ buckets[x].made /\ buckets[x].tokens = 0
                    /\ buckets[x].last_refill = now) => ~taken'.ok
C26_TenantIsolation == [][C26_Step]_vars
C26_Witness ==
    \E x \in Tenants, y \in Tenants :
        /\ x # y
        /\ buckets[y].made /\ buckets[y].tokens = 0 /\ buckets[y].last_refill = now
        /\ taken.ledger[y].admitted = rate_limit_burst
        /\ taken.token = x /\ taken.k = 1 /\ taken.ok /\ ~taken.made

\* C27: after any sequence of consume calls under a clock that never goes
\* back, the tokens of every bucket are at least 0 and at most its capacity.
C27_TokensInRange ==
    \A x \in Tenants :
        buckets[x].made => buckets[x].tokens >= 0 /\ buckets[x].tokens <= rate_limit_burst
C27_Witness ==
    /\ taken.n > 1 /\ taken.made
    /\ taken.before + taken.elapsed * rate_limit_rps > rate_limit_burst
    /\ taken.after = rate_limit_burst - taken.k
C27_WitnessEmpty ==
    taken.n > 1 /\ ~taken.ok /\ taken.after = 0 /\ taken.k > 0


\* the steps of an ingest request in the order stated
IngestSteps ==
    <<"authenticate", "rate_limit", "validate", "mask", "wal_append", "acknowledge">>

\* C28: the steps of an ingest request run in the order authenticate,
\* rate-limit, validate, mask, WAL append, acknowledge, each only after all
\* earlier ones succeeded: a rate-limited request is not validated, an
\* invalid batch is rejected only after the rate-limit step, and an accepted
\* request went through every step.
C28_StepOrder ==
    \A r \in responses :
        /\ Len(r.steps) <= Len(IngestSteps)
        /\ r.status # 202 => r.steps = SubSeq(IngestSteps, 1, Len(r.steps))
        /\ r.status = 202 => r.steps = IngestSteps
        /\ r.status = 429 => \A i \in 1..Len(r.steps) : r.steps[i] # "validate"
        /\ r.status = 422 => \E i \in 1..Len(r.steps) : r.steps[i] = "rate_limit"

\* C29: a masking failure of one entry does not fail the batch: the masked
\* list has the length and the order of the entries, a failed entry is
\* replaced by {"error": "masking_failed", "original_keys": [...]} with the
\* keys of the entry, every other entry is masked normally, and the request
\* is acknowledged.
C29_MaskingFailureIsolated ==
    \A r \in responses :
        (r.valid /\ r.status # 401 /\ r.status # 429) =>
            /\ r.status = 202
            /\ Len(r.masked) = Len(r.entries)
            /\ \A i \in 1..Len(r.entries) :
                  IF i \in r.bad
                  THEN r.masked[i] = [error |-> "masking_failed",
                                      original_keys |-> LogEntryKeys]
                  ELSE r.masked[i] = mask_log_entry(r.entries[i], r.token)
C29_Witness ==
    \E r \in responses :
        /\ r.status = 202 /\ Len(r.entries) = 2 /\ r.bad = {1}
        /\ r.masked[1].error = "masking_failed"
        /\ r.masked[2] = mask_log_entry(r.entries[2], r.token)


C31_InputUnchanged ==
    masking.op = "entry" =>
        /\ Len(masking.heap_after) >= Len(masking.heap)
        /\ \A a \in 1..Len(masking.heap) : masking.heap_after[a] = masking.heap[a]
        /\ masking.result.t = "ref"
        /\ Reach(masking.heap_after, masking.result) \cap Reach(masking.heap, masking.root) = {}
C31_Witness ==
    /\ masking.op = "entry"
    /\ Cardinality(Reach(masking.heap, masking.root)) = 3
    /\ Cardinality(Reach(masking.heap_after, masking.result)) = 3
    /\ \E a \in Reach(masking.heap, masking.root), b \in Reach(masking.heap_after, masking.result) :
          /\ masking.heap[a].kind = "dict" /\ masking.heap_after[b].kind = "dict"
          /\ Len(masking.heap[a].items) = 1
          /\ masking.heap[a].items[1][1] = k_password
          /\ masking.heap_after[b].items[1][1] = k_password
          /\ masking.heap_after[b].items[1][2] # masking.heap[a].items[1][2]

\* the largest number of characters of the value a rule may keep
Kept(rule) ==
    IF rule = <<>> THEN 0
    ELSE Max(IF "keep_prefix" \in DOMAIN rule[1] THEN rule[1]["keep_prefix"] ELSE 0,
             IF "keep_suffix" \in DOMAIN rule[1] THEN rule[1]["keep_suffix"] ELSE 0)

\* out and v have a substring of n characters in common
CommonSubstring(out, v, n) ==
    \E i \in 0..(Len(out) - n), j \in 0..(Len(v) - n) :
        SubSeq(out, i + 1, i + n) = SubSeq(v, j + 1, j + n)

\* C32: no leakage through masking: for a sensitive key with value v, under
\* every partial rule, the masked output contains no substring of v longer
\* than max(keep_prefix, keep_suffix) + 1 characters.
C32_NoLeak ==
    masking.op = "value" =>
        ~CommonSubstring(masking.output, masking.value,
                         Kept(RuleFor(masking.partial_rules, masking.key)) + 2)


\* C33: delete_segment is idempotent: on a missing file it changes nothing
\* and raises nothing, a second delete_segment of the same path leaves the
\* directory as the first left it, and no other file is affected.
C33_Step ==
    probe'.decided =>
        LET t == probe'.tenant
            nm == probe'.path
        IN  /\ nm \notin DOMAIN dir[t] => dir' = dir
            /\ delete_segment(dir'[t], nm) = dir'[t]
            /\ \A u \in Tenants : \A x \in DOMAIN dir[u] :
                  (u # t \/ x # nm) => x \in DOMAIN dir'[u] /\ dir'[u][x] = dir[u][x]
            /\ \A u \in Tenants : DOMAIN dir'[u] \subseteq DOMAIN dir[u]
C33_DeleteIdempotent == [][C33_Step]_vars
C33_Witness ==
    /\ probe.decided /\ ~probe.value
    /\ probe.path = Name(1, "ready")
    /\ DOMAIN dir[probe.tenant] = {Name(2, "ready")}


\* a direct child of wal_root: wal_root and one more component, which is
\* not '..'
DirectChild(path) ==
    /\ Len(path) = Len(wal_root) + 1
    /\ SubSeq(path, 1, Len(wal_root)) = wal_root
    /\ path[Len(path)] # <<46, 46>>

\* C34: directory traversal safety: for every token, every directory the WAL
\* manager derives from it, for append, for stats and for ready segments,
\* is a direct child of wal_root, and it is the same directory for all.
C34_TraversalSafe ==
    probe.decided =>
        LET d == probe.dirs
        IN  /\ DirectChild(d.append) /\ DirectChild(d.stats)
            /\ \A x \in d.ready \cup d.stats_usage : DirectChild(x)
            /\ d.stats = d.append
            /\ d.ready = {d.append} /\ d.stats_usage = {d.append}


\* C35: an entry whose serialized size is 32 KiB + 1 bytes is rejected: the
\* request fails with a validation error and no entry of the batch is
\* masked, appended or acknowledged.
C35_EntryTooLarge ==
    (probe.decided /\ \E i \in 1..Len(probe.body) :
                         SerializedSize(probe.body[i]) = entry_bytes_max + 1) =>
        \A r \in responses :
            /\ r.status = 422
            /\ r.entries_accepted = 0
            /\ r.masked = <<>>
            /\ \A i \in 1..Len(r.steps) : r.steps[i] \notin {"mask", "wal_append", "acknowledge"}

\* C36: an active segment that holds the records of completed append calls
\* and fulfils a rotation rule does not stay in the .wal state forever, also
\* when the tenant makes no further append call: eventually no active
\* segment of the tenant that fulfils a rotation rule holds such a record.
StaleActive(t) ==
    \E nm \in GlobWal(dir[t]) :
        /\ dir[t][nm].ok # <<>>
        /\ _should_rotate_segment(dir[t][nm], now)
\* what keeps such a segment active: a step that is not a step of an append
\* call (the clock, the forwarder's cycle) leaves the .wal files of every
\* tenant as they are (holds in Spec)
OnlyAppendRotates ==
    [][app' = app => \A t \in Tenants : GlobWal(dir'[t]) = GlobWal(dir[t])]_vars
C36_ActiveBecomesReady ==
    \A t \in Tenants : StaleActive(t) ~> ~StaleActive(t)

\* C37: rotation never destroys a ready segment: a step of the writer (a
\* step that is not the forwarder's) leaves every ready segment of every
\* tenant in place, under its name and with its contents.
C37_Step ==
    fwd' = fwd =>
        \A t \in Tenants : \A nm \in GlobReady(dir[t]) :
            /\ nm \in DOMAIN dir'[t]
            /\ dir'[t][nm].id = dir[t][nm].id
            /\ dir'[t][nm].data = dir[t][nm].data
C37_RotationKeepsReady == [][C37_Step]_vars

\* C38: ready segments do not accumulate: when a cycle of the forwarder in
\* which downstream answered every POST with 204 ends, no ready segment that
\* existed at its start is left, whether it held valid records or none (no
\* writer runs, so a ready segment that is left existed at the start).
C38_Step ==
    (/\ fwd.pc = "next" /\ fwd'.pc = "idle"
     /\ \A i \in 1..Len(posts) : posts[i].kind = "post" => posts[i].answer = "204") =>
        \A t \in Tenants : GlobReady(dir'[t]) = {}
C38_ReadyDrained == [][C38_Step]_vars

\* C39: the bucket recovers whatever the spacing of the calls: over the
\* interval of length T from the call that emptied the bucket to its last
\* call, the bucket has gained (admitted calls plus tokens left) at least
\* floor(T * rps) - 1 tokens, up to its capacity; so a caller that keeps
\* calling consume(1) is admitted once 2 / rps seconds have passed.
C39_Recovers ==
    probe.decided =>
        LET T == buckets["t1"].last_refill - probe.since
        IN  probe.admitted + buckets["t1"].tokens >=
                Min(rate_limit_burst, Trunc(T * rate_limit_rps, ClockHz) - 1)

\* C40: retrying a segment is bounded within a cycle.  Whatever the answers
\* (a status or a network error), a cycle makes at most max_retries + 1
\* POSTs for a segment; the step that gives the segment up deletes nothing
\* and leaves the cycle at the next segment of its list; and a cycle that
\* starts takes every ready segment on disk, so a later cycle attempts the
\* segment again.
CyclesStarted(w) == IF w = "loop" THEN 1 ELSE service.forced
PostsOf(w, seg) ==
    {i \in 1..Len(posts) : posts[i].kind = "post" /\ posts[i].who = w /\ posts[i].seg = seg}
C40_Bounded ==
    \A w \in Cycles : \A t \in Tenants :
        LET seg == <<t, Name(1, "ready")>>
        IN  /\ Cardinality(PostsOf(w, seg)) <= (max_retries + 1) * CyclesStarted(w)
            /\ \A i \in PostsOf(w, seg) : posts[i].attempt <= max_retries
C40_Step ==
    \A w \in Cycles :
        LET c == Cyc(w)
            c1 == IF w = "loop" THEN fwd' ELSE force'
        IN  /\ (/\ c.pc \in {"send", "sleep"} /\ c1.pc = "next"
                /\ c1.processed_segments = c.processed_segments) =>
                   /\ dir' = dir
                   /\ c.attempt = max_retries
                   /\ c1.todo = c.todo
            /\ (c.pc = "idle" /\ c1.pc = "next") =>
                   c1.todo = UNION {{<<t, nm>> : nm \in GlobReady(dir[t])} : t \in Tenants}
C40_RetryBounded == []C40_Bounded /\ [][C40_Step]_vars

\* the loop gave the segment of t1 up after max_retries + 1 POSTs and went
\* on to the segment of t2; the cycle of force_forward now POSTs the
\* segment of t1 again, which is still on disk
C40_Witness ==
    LET seg == <<"t1", Name(1, "ready")>>
    IN  /\ Cardinality(PostsOf("loop", seg)) = max_retries + 1
        /\ \A i \in PostsOf("loop", seg) : posts[i].answer # "204"
        /\ PostsOf("loop", <<"t2", Name(1, "ready")>>) # {}
        /\ fwd.pc = "idle"
        /\ PostsOf("force", seg) # {}
        /\ Name(1, "ready") \in DOMAIN dir["t1"]

=============================================================================
